---- MODULE Spec2Model ----
(***************************************************************************)
(* Consensus and ledger-application pipeline of the Zialiel protocol:      *)
(* the committee registry (CommitteeManager), the finality engine (QDBFT), *)
(* and the state they share.                                               *)
(***************************************************************************)
EXTENDS Integers, Sequences, FiniteSets, TLC

VARIABLES
    current_committee,          \* CommitteeManager.current_committee (a list)
    committee_history,          \* CommitteeManager.committee_history (a list of lists)
    pending_votes,              \* QDBFT._shared_pending_votes: digest -> {voter -> signature}
    finalized_super_vertices,   \* QDBFT._shared_finalized
    log,                        \* kind of the last line the engine logged
    prior,                      \* history variable: caller and digest of the last
                                \* propose or cast_vote call that was accepted, and the
                                \* voters the tally had when it was made
    thread,                     \* per engine instance running cast_vote on its own thread:
                                \* the statement it is at and its local variables
    calls_made,                 \* cast_vote calls each thread has started
    finalize_calls,             \* history variable: <<caller, digest>> of every execution
                                \* of finalized_super_vertices.add
    raised,                     \* history variable: threads whose cast_vote ended in KeyError
    vertices,                   \* DAG.vertices of the shared DAG: stored batch digests,
                                \* in insertion order
    super_vertices,             \* DAG.super_vertices: stored checkpoint digests, in order
    tips,                       \* DAG.tips
    balances,                   \* per node: LedgerState.balances
    pools,                      \* per node: the four fee pools of LedgerState
    applied,                    \* history variable, per node: the digests handed to
                                \* process_finalized_super_vertex, in call order
    returned,                   \* the last DAG, ledger, fee or node call: its name, its
                                \* arguments where a property needs them, the value it
                                \* returned ("True", "False" or "None"; the exception
                                \* where it raised) or the list or object
    mempool,                    \* per node: Node.mempool, the ids of the queued transfers
    built,                      \* the Vertex objects create_vertex has made that
                                \* DAG.vertices holds, by digest
    checkpoints                 \* the SuperVertex objects the run has constructed,
                                \* in the order of construction

consensusVars == <<current_committee, committee_history, pending_votes,
                   finalized_super_vertices, log, prior>>

threadVars == <<thread, calls_made, finalize_calls, raised>>

dagVars == <<vertices, super_vertices, tips>>

ledgerVars == <<balances, pools>>

creationVars == <<mempool, built, checkpoints>>

nodeVars == <<vertices, super_vertices, tips, balances, pools, applied, returned,
              mempool, built, checkpoints>>

vars == <<current_committee, committee_history, pending_votes,
          finalized_super_vertices, log, prior,
          thread, calls_made, finalize_calls, raised,
          vertices, super_vertices, tips, balances, pools, applied, returned,
          mempool, built, checkpoints>>

----------------------------------------------------------------------------
(* Bounds and input sets *)

\* number of rotate_committee calls a run makes
MaxRotations == 1

\* process_finalized_super_vertex calls made on one node
MaxApplications == 2

\* largest absolute value of a balance in the runs that call the ledger directly
MaxBalance == 40

\* largest content of the validator pool in those runs
MaxPool == 8

\* cast_vote calls one thread makes in a concurrent run
MaxCalls == 1

\* node ids that own an engine instance
NodeIds == {"validator_0", "validator_1", "validator_2", "validator_3"}

\* checkpoint digests (SuperVertex.hash values)
Digests == {"sv1", "sv2"}

\* secret keys a caller hands to propose_super_vertex / cast_vote: the key pair the
\* Node object generated; validator_0 was constructed twice and holds two
PrivateKeys(node_id) ==
    IF node_id = "validator_0" THEN {"sk_validator_0", "sk_validator_0_new"}
    ELSE IF node_id = "validator_1" THEN {"sk_validator_1"}
    ELSE IF node_id = "validator_2" THEN {"sk_validator_2"}
    ELSE {"sk_validator_3"}

\* committee lists the membership feed supplies
CommitteeChoices ==
    { <<"validator_0", "validator_1", "validator_2", "validator_3">>,
      <<"validator_0", "validator_1", "validator_2">>,
      <<"validator_3">> }

\* no call made yet, or a call that returns None
NoReturn == [ op |-> "none", args |-> << >>, value |-> "None", list |-> << >> ]

\* a call that returned a bool
Returned(op, ok) ==
    [ op |-> op, args |-> << >>, value |-> IF ok THEN "True" ELSE "False",
      list |-> << >> ]

\* a call that returned a list
ReturnedList(op, list) == [ op |-> op, args |-> << >>, value |-> "None", list |-> list ]

----------------------------------------------------------------------------
(* CommitteeManager *)

get_current_committee == current_committee

\* membership looked up in every committee ever recorded, not the current one
InCommitteeEver(node_id, committee) ==
    \E j \in 1..Len(committee_history) :
        \E i \in 1..Len(committee_history[j]) : committee_history[j][i] = node_id

InCommittee(node_id, committee) ==
    \E i \in 1..Len(committee) : committee[i] = node_id

----------------------------------------------------------------------------
(* QDBFT *)

\* mldsa_service.sign: the signature is determined by key and message
Sign(private_key, message) == <<private_key, message>>

\* a tally is a dict voter -> signature, held as its set of items
Voters(tally) == { item[1] : item \in tally }

\* votes appended, a voter's earlier entry kept
RecordVoteAppend(pv, h, node_id, signature) ==
    LET old == IF h \in DOMAIN pv THEN pv[h] ELSE {}
    IN  [ x \in DOMAIN pv \cup {h} |->
            IF x = h THEN old \cup { <<node_id, signature>> } ELSE pv[x] ]

\* self.pending_votes[h][node_id] = signature, the entry for h created when absent
RecordVote(pv, h, node_id, signature) ==
    LET old == IF h \in DOMAIN pv THEN pv[h] ELSE {}
        new == { item \in old : item[1] # node_id } \cup { <<node_id, signature>> }
    IN  [ x \in DOMAIN pv \cup {h} |-> IF x = h THEN new ELSE pv[x] ]

\* self.pending_votes.get(h, {})
GetVotes(pv, h) == IF h \in DOMAIN pv THEN pv[h] ELSE {}

\* a threshold above the size of the committee
RequiredVotesAboveAll(committee) == Len(committee) + 1

\* ceil(2N/3), the threshold the comment of _check_for_finality names
RequiredVotesCeil(committee) == ((Len(committee) * 2) + 2) \div 3

\* the size of the committee the engine was constructed with
RequiredVotesAtStart(committee) == ((Len(committee_history[1]) * 2) \div 3) + 1

\* required_votes = int(len(committee) * 2 / 3) + 1
RequiredVotes(committee) == ((Len(committee) * 2) \div 3) + 1

\* the finalized set replaced by the new digest
AddFinalizedOnly(fin, h) == {h}

\* finalized_super_vertices.add(h)
AddFinalized(fin, h) == fin \cup {h}

\* the tally left in place
DeleteTallyNot(pv, h) == pv

\* del self.pending_votes[h]
DeleteTally(pv, h) == [ x \in DOMAIN pv \ {h} |-> pv[x] ]

\* _check_for_finality: the shared state and the line logged
CheckForFinality(pv, fin, committee, h) ==
    IF Cardinality(GetVotes(pv, h)) >= RequiredVotes(committee)
    THEN [ pending |-> DeleteTally(pv, h), finalized |-> AddFinalized(fin, h),
           log |-> "finalized" ]
    ELSE [ pending |-> pv, finalized |-> fin, log |-> "not_enough_votes" ]

\* the check skipped: a finalized digest is voted on like any other
AlreadyFinalizedNever(fin, h) == FALSE

\* if super_vertex_hash in self.finalized_super_vertices
AlreadyFinalized(fin, h) == h \in fin

\* each instance counting only the votes cast through it
CastVoteResultOwnTally(pv, fin, committee, node_id, h, private_key) ==
    IF ~InCommittee(node_id, committee)
    THEN [ pending |-> pv, finalized |-> fin, log |-> "cannot_vote" ]
    ELSE IF AlreadyFinalized(fin, h)
    THEN [ pending |-> pv, finalized |-> fin, log |-> "already_finalized" ]
    ELSE LET recorded == RecordVote(pv, h, node_id, Sign(private_key, h))
             own == { item \in recorded[h] : item[1] = node_id }
         IN  IF Cardinality(own) >= RequiredVotes(committee)
             THEN [ pending |-> DeleteTally(recorded, h),
                    finalized |-> AddFinalized(fin, h), log |-> "finalized" ]
             ELSE [ pending |-> recorded, finalized |-> fin,
                    log |-> "not_enough_votes" ]

\* cast_vote: the shared state and the line logged
CastVoteResult(pv, fin, committee, node_id, h, private_key) ==
    IF ~InCommittee(node_id, committee)
    THEN [ pending |-> pv, finalized |-> fin, log |-> "cannot_vote" ]
    ELSE IF AlreadyFinalized(fin, h)
    THEN [ pending |-> pv, finalized |-> fin, log |-> "already_finalized" ]
    ELSE CheckForFinality(RecordVote(pv, h, node_id, Sign(private_key, h)),
                          fin, committee, h)

\* propose_super_vertex: the proposal is the proposer's vote
ProposeResult(pv, fin, committee, node_id, h, private_key) ==
    IF ~InCommittee(node_id, committee)
    THEN [ pending |-> pv, finalized |-> fin, log |-> "cannot_propose" ]
    ELSE CastVoteResult(pv, fin, committee, node_id, h, private_key)

NoPrior == [ node_id |-> "none", digest |-> "none", voters |-> {} ]

\* the tally an accepted vote finds
PriorOf(node_id, h) ==
    IF InCommittee(node_id, current_committee) /\ h \notin finalized_super_vertices
    THEN [ node_id |-> node_id, digest |-> h,
           voters |-> Voters(GetVotes(pending_votes, h)) ]
    ELSE NoPrior

CastVote(node_id, h, private_key) ==
    LET r == CastVoteResult(pending_votes, finalized_super_vertices,
                            get_current_committee, node_id, h, private_key)
    IN  /\ prior' = PriorOf(node_id, h)
        /\ log' = r.log
        /\ finalized_super_vertices' = r.finalized
        /\ pending_votes' = r.pending
        /\ UNCHANGED <<current_committee, committee_history>>
        /\ UNCHANGED <<threadVars, nodeVars>>

ProposeSuperVertex(node_id, h, private_key) ==
    LET r == ProposeResult(pending_votes, finalized_super_vertices,
                           get_current_committee, node_id, h, private_key)
    IN  /\ prior' = PriorOf(node_id, h)
        /\ log' = r.log
        /\ finalized_super_vertices' = r.finalized
        /\ pending_votes' = r.pending
        /\ UNCHANGED <<current_committee, committee_history>>
        /\ UNCHANGED <<threadVars, nodeVars>>

RotateCommittee(new_committee) ==
    /\ Len(committee_history) <= MaxRotations
    /\ current_committee' = new_committee
    /\ committee_history' = Append(committee_history, new_committee)
    /\ log' = "rotated"
    /\ UNCHANGED <<pending_votes, finalized_super_vertices, prior>>
    /\ UNCHANGED <<threadVars, nodeVars>>

----------------------------------------------------------------------------
(* Transactions, batches and checkpoints of the runs *)

\* accounts; "stranger" has no entry in known_peers
AccountIds == {"user_0", "user_1", "stranger", "validator_3"}

\* nodes whose process_finalized_super_vertex is called
ApplyingNodes == {"validator_0", "validator_1"}

\* Transaction.to_message: every field but the signature
Message(sender, recipient, amount, fee, id) ==
    [ sender |-> sender, recipient |-> recipient, amount |-> amount, fee |-> fee,
      id |-> id ]

\* Node.create_transaction: the transaction, signed with private_key
Transaction(sender, recipient, amount, fee, id, private_key) ==
    [ sender |-> sender, recipient |-> recipient, amount |-> amount, fee |-> fee,
      id |-> id,
      signature |-> Sign(private_key, Message(sender, recipient, amount, fee, id)) ]

\* the two transfers of the reference run, one signed with another sender's key,
\* one of a sender without a known key, one exceeding any balance, a transfer to
\* an account that holds nothing and one that spends what it received, one more
\* transfer
Tx(id) ==
    CASE id = "tx1" -> Transaction("user_0", "user_1", 100, 10, id, "sk_user_0")
      [] id = "tx2" -> Transaction("user_1", "user_0", 50, 5, id, "sk_user_1")
      [] id = "tx3" -> Transaction("user_1", "user_0", 50, 5, id, "sk_user_0")
      [] id = "tx4" -> Transaction("stranger", "user_0", 1, 1, id, "sk_stranger")
      [] id = "tx5" -> Transaction("user_0", "user_1", 20000, 0, id, "sk_user_0")
      [] id = "tx7" -> Transaction("user_0", "validator_3", 500, 10, id, "sk_user_0")
      [] id = "tx8" -> Transaction("validator_3", "user_1", 200, 4, id, "sk_validator_3")
      [] OTHER      -> Transaction("user_1", "user_0", 30, 3, id, "sk_user_1")

\* Vertex: transactions in order, parent_hashes, creator_id; its hash names it.
\* Besides the batches of the runs: a batch on two parents, a second child of vx1,
\* a batch without parents, and batches naming a parent that is never stored
Vertex(hash) ==
    CASE hash = "vx1" ->
            [ hash |-> hash, transactions |-> << Tx("tx1"), Tx("tx2") >>,
              parent_hashes |-> << "genesis" >>, creator_id |-> "validator_0" ]
      [] hash = "vx3" ->
            [ hash |-> hash, transactions |-> << Tx("tx6") >>,
              parent_hashes |-> << "vx1", "vx2" >>, creator_id |-> "validator_0" ]
      [] hash = "vx_fork" ->
            [ hash |-> hash, transactions |-> << Tx("tx6") >>,
              parent_hashes |-> << "vx1" >>, creator_id |-> "validator_3" ]
      [] hash = "vx_empty" ->
            [ hash |-> hash, transactions |-> << Tx("tx6") >>,
              parent_hashes |-> << >>, creator_id |-> "validator_3" ]
      [] hash = "vx_orphan" ->
            [ hash |-> hash, transactions |-> << Tx("tx6") >>,
              parent_hashes |-> << "vx_absent" >>, creator_id |-> "validator_3" ]
      [] hash = "vx_mixed" ->
            [ hash |-> hash, transactions |-> << Tx("tx6") >>,
              parent_hashes |-> << "genesis", "vx_absent" >>,
              creator_id |-> "validator_3" ]
      [] hash = "vx7" ->
            [ hash |-> hash, transactions |-> << Tx("tx7") >>,
              parent_hashes |-> << "genesis" >>, creator_id |-> "validator_0" ]
      [] hash = "vx8" ->
            [ hash |-> hash, transactions |-> << Tx("tx8") >>,
              parent_hashes |-> << "genesis" >>, creator_id |-> "validator_1" ]
      [] hash = "vx_mix" ->
            [ hash |-> hash,
              transactions |-> << Tx("tx6"), Tx("tx3"), Tx("tx4"), Tx("tx5"), Tx("tx2") >>,
              parent_hashes |-> << "genesis" >>, creator_id |-> "validator_1" ]
      [] hash = "vx_self" ->
            [ hash |-> hash, transactions |-> << Tx("tx6") >>,
              parent_hashes |-> << "vx_self" >>, creator_id |-> "validator_3" ]
      [] OTHER ->
            [ hash |-> hash,
              transactions |-> << Tx("tx3"), Tx("tx4"), Tx("tx5"), Tx("tx6") >>,
              parent_hashes |-> << "vx1" >>, creator_id |-> "validator_1" ]

\* SuperVertex: cohort_hashes, creator_id; its hash is the digest voted on
SuperVertex(hash) ==
    CASE hash = "sv1" ->
            [ hash |-> hash, cohort_hashes |-> << "vx1" >>,
              parent_super_vertex_hash |-> "genesis_sv", creator_id |-> "validator_2" ]
      [] hash = "sv4" ->
            [ hash |-> hash, cohort_hashes |-> << "vx7", "vx1", "vx8" >>,
              parent_super_vertex_hash |-> "sv1", creator_id |-> "validator_2" ]
      [] hash = "sv5" ->
            [ hash |-> hash, cohort_hashes |-> << "vx_mix" >>,
              parent_super_vertex_hash |-> "sv1", creator_id |-> "validator_2" ]
      [] hash = "sv3" ->
            [ hash |-> hash, cohort_hashes |-> << "vx1", "vx_fork" >>,
              parent_super_vertex_hash |-> "sv1", creator_id |-> "validator_0" ]
      [] OTHER ->
            [ hash |-> hash, cohort_hashes |-> << "vx_absent", "vx2" >>,
              parent_super_vertex_hash |-> "sv1", creator_id |-> "validator_2" ]

\* hashlib.sha256(text.encode()).hexdigest(), taken as injective
Sha256(text) == "sha256:" \o text

\* the text Vertex.calculate_hash hashes.  In the f-string of line 26 every brace
\* is doubled, so that nothing is substituted: the text is the same for every
\* batch, whatever its transactions, parents, creator and timestamp
VertexBlockString(transactions, parent_hashes, creator_id, timestamp) ==
    "{'transactions': [tx.calculate_hash() for tx in self.transactions], 'parents': self.parent_hashes, 'creator': self.creator_id, 'timestamp': self.timestamp}"

\* Vertex.calculate_hash
VertexCalculateHash(transactions, parent_hashes, creator_id, timestamp) ==
    Sha256(VertexBlockString(transactions, parent_hashes, creator_id, timestamp))

\* Vertex(transactions=..., parent_hashes=..., creator_id=...): __post_init__ sets
\* the hash
NewVertex(transactions, parent_hashes, creator_id, timestamp) ==
    [ hash |-> VertexCalculateHash(transactions, parent_hashes, creator_id, timestamp),
      transactions |-> transactions, parent_hashes |-> parent_hashes,
      creator_id |-> creator_id, timestamp |-> timestamp ]

\* the text SuperVertex.calculate_hash hashes: the braces of line 82 are doubled
\* as well
SuperVertexBlockString(parent_hash, creator_id, timestamp, tx_root, struct_root) ==
    "{'parent': self.parent_super_vertex_hash, 'creator': self.creator_id, 'timestamp': self.timestamp, 'tx_root': self.transaction_merkle_root, 'struct_root': self.structure_merkle_root}"

\* SuperVertex.calculate_hash
SuperVertexCalculateHash(parent_hash, creator_id, timestamp, tx_root, struct_root) ==
    Sha256(SuperVertexBlockString(parent_hash, creator_id, timestamp, tx_root,
                                  struct_root))

\* the last element of an odd level carried to the next level unpaired
RECURSIVE MerkleReduceCarryOdd(_)
MerkleReduceCarryOdd(hashed_items) ==
    IF Len(hashed_items) = 1 THEN hashed_items[1]
    ELSE MerkleReduceCarryOdd(
            [ i \in 1..((Len(hashed_items) + 1) \div 2) |->
                IF 2 * i <= Len(hashed_items)
                THEN Sha256(hashed_items[2 * i - 1] \o hashed_items[2 * i])
                ELSE hashed_items[2 * i - 1] ])

\* SuperVertex._calculate_merkle_root: the items are hashed, then each level is
\* paired left to right, the last one doubled when the level is odd
RECURSIVE MerkleReduce(_)
MerkleReduce(hashed_items) ==
    IF Len(hashed_items) = 1 THEN hashed_items[1]
    ELSE LET padded == IF Len(hashed_items) % 2 # 0
                       THEN Append(hashed_items, hashed_items[Len(hashed_items)])
                       ELSE hashed_items
         IN  MerkleReduce([ i \in 1..(Len(padded) \div 2) |->
                              Sha256(padded[2 * i - 1] \o padded[2 * i]) ])

CalculateMerkleRoot(items) ==
    IF items = << >> THEN Sha256("")
    ELSE MerkleReduce([ i \in 1..Len(items) |-> Sha256(items[i]) ])

\* SuperVertex(cohort_hashes=..., parent_super_vertex_hash=..., creator_id=...):
\* __post_init__ sets both roots from the cohort, then the hash
NewSuperVertex(cohort_hashes, parent_super_vertex_hash, creator_id, timestamp) ==
    [ hash |-> SuperVertexCalculateHash(parent_super_vertex_hash, creator_id, timestamp,
                                        CalculateMerkleRoot(cohort_hashes),
                                        CalculateMerkleRoot(cohort_hashes)),
      cohort_hashes |-> cohort_hashes,
      parent_super_vertex_hash |-> parent_super_vertex_hash,
      creator_id |-> creator_id, timestamp |-> timestamp,
      transaction_merkle_root |-> CalculateMerkleRoot(cohort_hashes),
      structure_merkle_root |-> CalculateMerkleRoot(cohort_hashes) ]

\* generate_keypair: the public key that belongs to a secret key
PublicKey(private_key) == << "pk", private_key >>

\* Node.keypair
KeyPair(node_id) ==
    [ private_key |-> "sk_" \o node_id, public_key |-> PublicKey("sk_" \o node_id) ]

\* mldsa_service.verify
Verify(public_key, message, signature) ==
    /\ signature[2] = message
    /\ PublicKey(signature[1]) = public_key

\* Node.known_peers, the dict all nodes of the run share: node id -> public key
KnownPeers == [ a \in NodeIds \cup {"user_0", "user_1"} |-> KeyPair(a).public_key ]

----------------------------------------------------------------------------
(* DAG *)

InSeq(x, seq) == \E i \in 1..Len(seq) : seq[i] = x

Range(seq) == { seq[i] : i \in 1..Len(seq) }

\* DAG.get_vertex: the stored vertex, or None
HasVertex(stored, vertex_hash) == InSeq(vertex_hash, stored)

\* the Vertex object DAG.vertices holds under a digest: one that create_vertex
\* made, or else the batch of that name
GetVertex(vertex_hash) ==
    IF \E i \in 1..Len(built) : built[i].hash = vertex_hash
    THEN built[CHOOSE i \in 1..Len(built) : built[i].hash = vertex_hash]
    ELSE Vertex(vertex_hash)

\* the parents left in the tips
UpdateTipsKeepParents(t, vertex) == t \cup { vertex.hash }

\* DAG._update_tips
UpdateTips(t, vertex) ==
    (t \ { vertex.parent_hashes[i] : i \in 1..Len(vertex.parent_hashes) })
        \cup { vertex.hash }

\* no parent looked up
MissingParentNever(stored, vertex) == FALSE

\* 'genesis' looked up like any other parent
MissingParentStrict(stored, vertex) ==
    \E i \in 1..Len(vertex.parent_hashes) : ~InSeq(vertex.parent_hashes[i], stored)

\* the parent loop of add_vertex: some parent other than 'genesis' is not stored
MissingParent(stored, vertex) ==
    \E i \in 1..Len(vertex.parent_hashes) :
        /\ vertex.parent_hashes[i] # "genesis"
        /\ ~InSeq(vertex.parent_hashes[i], stored)

\* the tips updated before the parents are looked up
AddVertexResultTipsFirst(stored, t, vertex) ==
    IF InSeq(vertex.hash, stored)
    THEN [ vertices |-> stored, tips |-> t, ok |-> FALSE ]
    ELSE IF MissingParent(stored, vertex)
    THEN [ vertices |-> stored, tips |-> UpdateTips(t, vertex), ok |-> FALSE ]
    ELSE [ vertices |-> Append(stored, vertex.hash), tips |-> UpdateTips(t, vertex),
           ok |-> TRUE ]

\* DAG.add_vertex: the store after the call and the value returned
AddVertexResult(stored, t, vertex) ==
    IF InSeq(vertex.hash, stored)
    THEN [ vertices |-> stored, tips |-> t, ok |-> FALSE ]
    ELSE IF MissingParent(stored, vertex)
    THEN [ vertices |-> stored, tips |-> t, ok |-> FALSE ]
    ELSE [ vertices |-> Append(stored, vertex.hash), tips |-> UpdateTips(t, vertex),
           ok |-> TRUE ]

\* a checkpoint admitted only when every batch of its cohort is stored
AddSuperVertexResultChecked(stored, super_vertex) ==
    IF InSeq(super_vertex.hash, stored)
           \/ \E i \in 1..Len(super_vertex.cohort_hashes) :
                  ~InSeq(super_vertex.cohort_hashes[i], vertices)
    THEN [ super_vertices |-> stored, ok |-> FALSE ]
    ELSE [ super_vertices |-> Append(stored, super_vertex.hash), ok |-> TRUE ]

\* DAG.add_super_vertex
AddSuperVertexResult(stored, super_vertex) ==
    IF InSeq(super_vertex.hash, stored)
    THEN [ super_vertices |-> stored, ok |-> FALSE ]
    ELSE [ super_vertices |-> Append(stored, super_vertex.hash), ok |-> TRUE ]

\* confirmed_hashes: the union of the cohorts of the stored checkpoints
ConfirmedHashes(svs) ==
    UNION { { SuperVertex(svs[i]).cohort_hashes[j] :
                j \in 1..Len(SuperVertex(svs[i]).cohort_hashes) } : i \in 1..Len(svs) }

\* only the cohort of the checkpoint stored last is looked at
GetUnconfirmedVerticesLast(stored, svs) ==
    LET IsUnconfirmed(h) == svs = << >> \/ h \notin ConfirmedHashes(<< svs[Len(svs)] >>)
    IN  SelectSeq(stored, IsUnconfirmed)

\* DAG.get_unconfirmed_vertices: the stored batches, in dict order, outside
\* confirmed_hashes
GetUnconfirmedVertices(stored, svs) ==
    LET IsUnconfirmed(h) == h \notin ConfirmedHashes(svs)
    IN  SelectSeq(stored, IsUnconfirmed)

----------------------------------------------------------------------------
(* LedgerState and FeeModel *)

EmptyBalances == [ a \in AccountIds |-> 0 ]

EmptyPools ==
    [ validator_share_pool |-> 0, ubi_share_pool |-> 0, carbon_share_pool |-> 0,
      gratitude_share_pool |-> 0 ]

\* LedgerState.credit
Credit(bal, address, amount) ==
    IF amount < 0 THEN bal ELSE [ bal EXCEPT ![address] = @ + amount ]

\* the fee left out of the funds test
ApplyTransactionCheckAmount(bal, sender, recipient, amount, fee) ==
    IF bal[sender] < amount
    THEN [ balances |-> bal, ok |-> FALSE ]
    ELSE LET debited == [ bal EXCEPT ![sender] = @ - (amount + fee) ]
         IN  [ balances |-> [ debited EXCEPT ![recipient] = @ + amount ],
               ok |-> TRUE ]

\* the fee not taken from the sender
ApplyTransactionNoFeeDebit(bal, sender, recipient, amount, fee) ==
    IF bal[sender] < amount + fee
    THEN [ balances |-> bal, ok |-> FALSE ]
    ELSE LET debited == [ bal EXCEPT ![sender] = @ - amount ]
         IN  [ balances |-> [ debited EXCEPT ![recipient] = @ + amount ],
               ok |-> TRUE ]

\* the fee handed to the recipient with the amount
ApplyTransactionCreditTotal(bal, sender, recipient, amount, fee) ==
    IF bal[sender] < amount + fee
    THEN [ balances |-> bal, ok |-> FALSE ]
    ELSE LET debited == [ bal EXCEPT ![sender] = @ - (amount + fee) ]
         IN  [ balances |-> [ debited EXCEPT ![recipient] = @ + (amount + fee) ],
               ok |-> TRUE ]

\* LedgerState.apply_transaction: the balances after the call and the value returned
ApplyTransaction(bal, sender, recipient, amount, fee) ==
    LET total_debit == amount + fee
    IN  IF bal[sender] < total_debit
        THEN [ balances |-> bal, ok |-> FALSE ]
        ELSE LET debited == [ bal EXCEPT ![sender] = @ - total_debit ]
             IN  [ balances |-> [ debited EXCEPT ![recipient] = @ + amount ],
                   ok |-> TRUE ]

\* what the four products leave over kept by nobody
GetFeeBreakdownNoRemainder(total_fee) ==
    IF total_fee < 1
    THEN [ validator_share |-> 0, ubi_share |-> 0, carbon_share |-> 0,
           gratitude_share |-> 0 ]
    ELSE [ validator_share |-> (total_fee * 6) \div 10,
           ubi_share |-> (total_fee * 2) \div 10,
           carbon_share |-> total_fee \div 10, gratitude_share |-> total_fee \div 10 ]

\* FeeModel.get_fee_breakdown on the fees of the runs that apply checkpoints:
\* int(total_fee * 0.6) and so on; the products of these doubles truncate to the
\* exact floors for every fee below 3000000 (GetFeeBreakdownFloat below computes
\* them as the floats do, for fees of any size)
GetFeeBreakdown(total_fee) ==
    IF total_fee < 1
    THEN [ validator_share |-> 0, ubi_share |-> 0, carbon_share |-> 0,
           gratitude_share |-> 0 ]
    ELSE LET validator_share == (total_fee * 6) \div 10
             ubi_share == (total_fee * 2) \div 10
             carbon_share == total_fee \div 10
             gratitude_share == total_fee \div 10
             remainder == total_fee
                            - (validator_share + ubi_share + carbon_share + gratitude_share)
         IN  [ validator_share |-> validator_share + remainder, ubi_share |-> ubi_share,
               carbon_share |-> carbon_share, gratitude_share |-> gratitude_share ]

\* LedgerState.distribute_fee
DistributeFee(p, fee_breakdown) ==
    [ validator_share_pool |-> p.validator_share_pool + fee_breakdown.validator_share,
      ubi_share_pool |-> p.ubi_share_pool + fee_breakdown.ubi_share,
      carbon_share_pool |-> p.carbon_share_pool + fee_breakdown.carbon_share,
      gratitude_share_pool |-> p.gratitude_share_pool + fee_breakdown.gratitude_share ]

----------------------------------------------------------------------------
(* Python integers and floats *)

\* A Python int has no width: a natural number is the sequence of its digits
\* in base Limb, lowest first, with no zero at the top; zero is << >>.
Limb == 2 ^ 15

\* significant bits of a Python float (a double)
MantissaBits == 53

RECURSIVE ToWide(_)
ToWide(k) == IF k = 0 THEN << >> ELSE << k % Limb >> \o ToWide(k \div Limb)

\* the digits below the highest one that is not zero
WNorm(a) ==
    SubSeq(a, 1, CHOOSE i \in 0..Len(a) :
                     /\ i = 0 \/ a[i] # 0
                     /\ \A j \in (i + 1)..Len(a) : a[j] = 0)

\* the digit at place i, zero above the top
WAt(a, i) == IF i <= Len(a) THEN a[i] ELSE 0

\* digit by digit arithmetic runs over the places lo..hi with a carry, one half
\* of the places after the other: the digits of a stretch and the carry it
\* leaves
WStretch(low, high) == [ digits |-> low.digits \o high.digits, carry |-> high.carry ]

WCarried(r) == r.digits \o ToWide(r.carry)

WSplit(x) == [ digits |-> << x % Limb >>, carry |-> x \div Limb ]

RECURSIVE WAddCarry(_, _, _, _, _)
WAddCarryOn(low, a, b, lo, hi) == WStretch(low, WAddCarry(a, b, lo, hi, low.carry))

WAddCarry(a, b, lo, hi, carry) ==
    IF lo = hi THEN WSplit(WAt(a, lo) + WAt(b, lo) + carry)
    ELSE WAddCarryOn(WAddCarry(a, b, lo, (lo + hi) \div 2, carry),
                     a, b, (lo + hi) \div 2 + 1, hi)

WAdd(a, b) ==
    IF a = << >> THEN b
    ELSE IF b = << >> THEN a
    ELSE WCarried(WAddCarry(a, b, 1, IF Len(a) < Len(b) THEN Len(b) ELSE Len(a), 0))

\* a - b for a >= b; the carry of a stretch is the borrow it leaves
WBorrowed(x) == [ digits |-> << x % Limb >>, carry |-> IF x < 0 THEN 1 ELSE 0 ]

RECURSIVE WSubBorrow(_, _, _, _, _)
WSubBorrowOn(low, a, b, lo, hi) == WStretch(low, WSubBorrow(a, b, lo, hi, low.carry))

WSubBorrow(a, b, lo, hi, borrow) ==
    IF lo = hi THEN WBorrowed(a[lo] - WAt(b, lo) - borrow)
    ELSE WSubBorrowOn(WSubBorrow(a, b, lo, (lo + hi) \div 2, borrow),
                      a, b, (lo + hi) \div 2 + 1, hi)

WSub(a, b) == IF a = << >> THEN a ELSE WNorm(WSubBorrow(a, b, 1, Len(a), 0).digits)

\* the highest place where a and b of equal length differ decides
WLessFromTop(a, b) ==
    \E i \in 1..Len(a) : a[i] < b[i] /\ \A j \in (i + 1)..Len(a) : a[j] = b[j]

WLess(a, b) ==
    IF Len(a) # Len(b) THEN Len(a) < Len(b) ELSE WLessFromTop(a, b)

\* a * k for 0 <= k <= Limb
RECURSIVE WMulSmallCarry(_, _, _, _, _)
WMulSmallCarryOn(low, a, k, lo, hi) == WStretch(low, WMulSmallCarry(a, k, lo, hi, low.carry))

WMulSmallCarry(a, k, lo, hi, carry) ==
    IF lo = hi THEN WSplit(a[lo] * k + carry)
    ELSE WMulSmallCarryOn(WMulSmallCarry(a, k, lo, (lo + hi) \div 2, carry),
                          a, k, (lo + hi) \div 2 + 1, hi)

WMulSmall(a, k) ==
    IF k = 0 \/ a = << >> THEN << >> ELSE WCarried(WMulSmallCarry(a, k, 1, Len(a), 0))

\* a * Limb
WTimesLimb(a) == IF a = << >> THEN a ELSE << 0 >> \o a

RECURSIVE WMul(_, _)
WMul(a, b) ==
    IF a = << >> \/ b = << >> THEN << >>
    ELSE WAdd(WMulSmall(a, Head(b)), WTimesLimb(WMul(a, Tail(b))))

\* the digits of the quotient of a by d, highest first: the places hi..lo of a
\* from the top down, the carry being the remainder the places above have left
WQuotient(x, d) == [ digits |-> << x \div d >>, carry |-> x % d ]

RECURSIVE WDivFrom(_, _, _, _, _)
WDivFromOn(high, a, d, hi, lo) == WStretch(high, WDivFrom(a, d, hi, lo, high.carry))

WDivFrom(a, d, hi, lo, r) ==
    IF lo = hi THEN WQuotient(r * Limb + a[hi], d)
    ELSE WDivFromOn(WDivFrom(a, d, hi, (lo + hi) \div 2 + 1, r),
                    a, d, (lo + hi) \div 2, lo)

WReverse(a) == [ i \in 1..Len(a) |-> a[Len(a) + 1 - i] ]

\* a // d for 0 < d <= Limb
WDiv(a, d) ==
    IF a = << >> THEN a ELSE WNorm(WReverse(WDivFrom(a, d, Len(a), 1, 0).digits))

RECURSIVE SmallBitLength(_)
SmallBitLength(k) == IF k = 0 THEN 0 ELSE 1 + SmallBitLength(k \div 2)

\* int.bit_length
BitLength(a) ==
    IF a = << >> THEN 0 ELSE 15 * (Len(a) - 1) + SmallBitLength(a[Len(a)])

\* a >> s
WShiftRight(a, s) ==
    IF s \div 15 >= Len(a) THEN << >>
    ELSE WDiv(SubSeq(a, (s \div 15) + 1, Len(a)), 2 ^ (s % 15))

\* a << s
WShiftLeft(a, s) ==
    IF a = << >> THEN a
    ELSE [ i \in 1..(s \div 15) |-> 0 ] \o WMulSmall(a, 2 ^ (s % 15))

\* a natural number written in groups of four decimal digits, highest first
RECURSIVE Decimal(_)
Decimal(groups) ==
    IF groups = << >> THEN << >>
    ELSE WAdd(WMulSmall(Decimal(SubSeq(groups, 1, Len(groups) - 1)), 10000),
              ToWide(groups[Len(groups)]))

\* the nearest number with at most MantissaBits significant bits, ties to the
\* even one: what the conversion to float and every float operation deliver
RoundUp(q, rest, half) == WLess(half, rest) \/ (rest = half /\ Head(q) % 2 = 1)

RoundShifted(a, s, q) ==
    WShiftLeft(IF RoundUp(q, WSub(a, WShiftLeft(q, s)), WShiftLeft(<< 1 >>, s - 1))
               THEN WAdd(q, << 1 >>) ELSE q, s)

RoundToDouble(a) ==
    IF BitLength(a) <= MantissaBits THEN a
    ELSE RoundShifted(a, BitLength(a) - MantissaBits,
                      WShiftRight(a, BitLength(a) - MantissaBits))

\* the float literals of get_fee_breakdown: 0.6, 0.2 and 0.1 are the doubles
\* mantissa / 2 ^ exponent
Float06 == [ mantissa |-> Decimal(<< 5404, 3195, 5284, 4595 >>), exponent |-> 53 ]
Float02 == [ mantissa |-> Decimal(<< 3602, 8797, 0189, 6397 >>), exponent |-> 54 ]
Float01 == [ mantissa |-> Decimal(<< 3602, 8797, 0189, 6397 >>), exponent |-> 55 ]

\* bits of the largest double: a number that rounds to 2 ^ 1024 or more has no
\* float, and converting it raises OverflowError
MaxFloatBits == 1024

FloatOverflows(a) == BitLength(RoundToDouble(a)) > MaxFloatBits

\* int(n * f) for an int n >= 0 and a float f: n is converted to float, the
\* product is rounded to a double, int() truncates
IntOfProduct(n, f) ==
    WShiftRight(RoundToDouble(WMul(RoundToDouble(n), f.mantissa)), f.exponent)

\* a signed Python int
Z(negative, magnitude) ==
    [ negative |-> negative /\ magnitude # << >>, magnitude |-> magnitude ]

Zero == Z(FALSE, << >>)

ZAdd(x, y) ==
    IF x.negative = y.negative THEN Z(x.negative, WAdd(x.magnitude, y.magnitude))
    ELSE IF WLess(x.magnitude, y.magnitude)
    THEN Z(y.negative, WSub(y.magnitude, x.magnitude))
    ELSE Z(x.negative, WSub(x.magnitude, y.magnitude))

ZNeg(x) == Z(~x.negative, x.magnitude)

ZSub(x, y) == ZAdd(x, ZNeg(y))

\* x < 1
ZLessThanOne(x) == x.negative \/ x.magnitude = << >>

\* FeeModel.get_fee_breakdown on Python ints of any size, share by share as
\* the float products deliver them; raised is the exception that ended the call
GetFeeBreakdownFloat(total_fee) ==
    IF ZLessThanOne(total_fee)
    THEN [ raised |-> "None", validator_share |-> Zero, ubi_share |-> Zero,
           carbon_share |-> Zero, gratitude_share |-> Zero ]
    ELSE IF FloatOverflows(total_fee.magnitude)
    THEN [ raised |-> "OverflowError", validator_share |-> Zero, ubi_share |-> Zero,
           carbon_share |-> Zero, gratitude_share |-> Zero ]
    ELSE LET validator_share == Z(FALSE, IntOfProduct(total_fee.magnitude, Float06))
             ubi_share == Z(FALSE, IntOfProduct(total_fee.magnitude, Float02))
             carbon_share == Z(FALSE, IntOfProduct(total_fee.magnitude, Float01))
             gratitude_share == Z(FALSE, IntOfProduct(total_fee.magnitude, Float01))
             current_total == ZAdd(ZAdd(validator_share, ubi_share),
                                   ZAdd(carbon_share, gratitude_share))
             remainder == ZSub(total_fee, current_total)
         IN  [ raised |-> "None",
               validator_share |-> ZAdd(validator_share, remainder),
               ubi_share |-> ubi_share, carbon_share |-> carbon_share,
               gratitude_share |-> gratitude_share ]

\* LedgerState.distribute_fee on Python ints of any size
DistributeFeeWide(p, fee_breakdown) ==
    [ validator_share_pool |-> ZAdd(p.validator_share_pool, fee_breakdown.validator_share),
      ubi_share_pool |-> ZAdd(p.ubi_share_pool, fee_breakdown.ubi_share),
      carbon_share_pool |-> ZAdd(p.carbon_share_pool, fee_breakdown.carbon_share),
      gratitude_share_pool |-> ZAdd(p.gratitude_share_pool, fee_breakdown.gratitude_share) ]

\* x < y
ZLess(x, y) == ZSub(x, y).negative

\* LedgerState.apply_transaction on Python ints of any size
ApplyTransactionWide(bal, sender, recipient, amount, fee) ==
    LET total_debit == ZAdd(amount, fee)
    IN  IF ZLess(bal[sender], total_debit)
        THEN [ balances |-> bal, ok |-> FALSE ]
        ELSE LET debited == [ bal EXCEPT ![sender] = ZSub(@, total_debit) ]
             IN  [ balances |-> [ debited EXCEPT ![recipient] = ZAdd(@, amount) ],
                   ok |-> TRUE ]

----------------------------------------------------------------------------
(* Node.process_finalized_super_vertex *)

\* the fee pooled whether or not the transfer was applied
ProcessTransactionPoolAlways(ledger, tx) ==
    IF tx.sender \notin DOMAIN KnownPeers
    THEN ledger
    ELSE IF ~Verify(KnownPeers[tx.sender],
                    Message(tx.sender, tx.recipient, tx.amount, tx.fee, tx.id),
                    tx.signature)
    THEN ledger
    ELSE LET r == ApplyTransaction(ledger.balances, tx.sender, tx.recipient,
                                   tx.amount, tx.fee)
         IN  [ balances |-> r.balances,
               pools |-> DistributeFee(ledger.pools, GetFeeBreakdown(tx.fee)) ]

\* one transaction of a batch: key lookup, signature check, transfer, fee split
ProcessTransaction(ledger, tx) ==
    IF tx.sender \notin DOMAIN KnownPeers
    THEN ledger
    ELSE IF ~Verify(KnownPeers[tx.sender],
                    Message(tx.sender, tx.recipient, tx.amount, tx.fee, tx.id),
                    tx.signature)
    THEN ledger
    ELSE LET r == ApplyTransaction(ledger.balances, tx.sender, tx.recipient,
                                   tx.amount, tx.fee)
         IN  IF r.ok
             THEN [ balances |-> r.balances,
                    pools |-> DistributeFee(ledger.pools, GetFeeBreakdown(tx.fee)) ]
             ELSE ledger

\* the batch abandoned at the first transaction that is not applied
RECURSIVE ProcessTransactionsStop(_, _)
ProcessTransactionsStop(ledger, txs) ==
    IF txs = << >> THEN ledger
    ELSE IF ProcessTransaction(ledger, Head(txs)) = ledger THEN ledger
    ELSE ProcessTransactionsStop(ProcessTransaction(ledger, Head(txs)), Tail(txs))

\* for tx in vertex.transactions, in stored order
RECURSIVE ProcessTransactions(_, _)
ProcessTransactions(ledger, txs) ==
    IF txs = << >> THEN ledger
    ELSE ProcessTransactions(ProcessTransaction(ledger, Head(txs)), Tail(txs))

\* the walk over the cohort ended at the first batch that is not stored
RECURSIVE ProcessCohortAbort(_, _, _)
ProcessCohortAbort(ledger, stored, cohort) ==
    IF cohort = << >> THEN ledger
    ELSE IF ~HasVertex(stored, Head(cohort)) THEN ledger
    ELSE ProcessCohortAbort(
            ProcessTransactions(ledger, GetVertex(Head(cohort)).transactions),
            stored, Tail(cohort))

\* for vertex_hash in super_vertex.cohort_hashes; a batch not stored is skipped
RECURSIVE ProcessCohort(_, _, _)
ProcessCohort(ledger, stored, cohort) ==
    IF cohort = << >> THEN ledger
    ELSE ProcessCohort(
            IF HasVertex(stored, Head(cohort))
            THEN ProcessTransactions(ledger, GetVertex(Head(cohort)).transactions)
            ELSE ledger,
            stored, Tail(cohort))

\* the pools kept in one place for all nodes
ProcessFinalizedSuperVertexSharedPools(node_id, super_vertex) ==
    LET r == ProcessCohort([ balances |-> balances[node_id],
                             pools |-> pools["validator_0"] ],
                           vertices, super_vertex.cohort_hashes)
    IN  /\ Len(applied[node_id]) < MaxApplications
        /\ balances' = [ balances EXCEPT ![node_id] = r.balances ]
        /\ pools' = [ pools EXCEPT ![node_id] = r.pools ]
        /\ applied' = [ applied EXCEPT ![node_id] = Append(@, super_vertex.hash) ]
        /\ returned' = [ NoReturn EXCEPT !.op = "process_finalized_super_vertex" ]
        /\ UNCHANGED <<consensusVars, threadVars, creationVars, dagVars>>

ProcessFinalizedSuperVertex(node_id, super_vertex) ==
    LET r == ProcessCohort([ balances |-> balances[node_id], pools |-> pools[node_id] ],
                           vertices, super_vertex.cohort_hashes)
    IN  /\ Len(applied[node_id]) < MaxApplications
        /\ balances' = [ balances EXCEPT ![node_id] = r.balances ]
        /\ pools' = [ pools EXCEPT ![node_id] = r.pools ]
        /\ applied' = [ applied EXCEPT ![node_id] = Append(@, super_vertex.hash) ]
        /\ returned' = [ NoReturn EXCEPT !.op = "process_finalized_super_vertex" ]
        /\ UNCHANGED <<consensusVars, threadVars, creationVars, dagVars>>

----------------------------------------------------------------------------
(* The finality engine driven by proposals, votes and rotations *)

NoRef == [ live |-> FALSE, items |-> {} ]

Idle == [ pc |-> "idle", digest |-> "none", key |-> "none", votes |-> NoRef ]

Init ==
    /\ current_committee \in CommitteeChoices
    /\ committee_history = <<current_committee>>
    /\ pending_votes = << >>
    /\ finalized_super_vertices = {}
    /\ log = "initialized"
    /\ prior = NoPrior
    /\ thread = [ t \in NodeIds |-> Idle ]
    /\ calls_made = [ t \in NodeIds |-> 0 ]
    /\ finalize_calls = {}
    /\ raised = {}
    /\ vertices = << >>
    /\ super_vertices = << >>
    /\ tips = {}
    /\ balances = [ n \in NodeIds |-> EmptyBalances ]
    /\ pools = [ n \in NodeIds |-> EmptyPools ]
    /\ applied = [ n \in NodeIds |-> << >> ]
    /\ returned = NoReturn
    /\ mempool = [ n \in NodeIds |-> << >> ]
    /\ built = << >>
    /\ checkpoints = << >>

DoCastVote ==
    \E n \in NodeIds, h \in Digests : \E k \in PrivateKeys(n) : CastVote(n, h, k)

DoPropose ==
    \E n \in NodeIds, h \in Digests : \E k \in PrivateKeys(n) : ProposeSuperVertex(n, h, k)

DoRotate == \E c \in CommitteeChoices : RotateCommittee(c)

Next == DoCastVote \/ DoPropose \/ DoRotate

Spec == Init /\ [][Next]_vars

----------------------------------------------------------------------------
(* The finality engine with a committee that is never rotated and members *)
(* that keep voting                                                        *)

\* some cast_vote call of node_id for digest h
CastVoteOf(node_id, h) == \E k \in PrivateKeys(node_id) : CastVote(node_id, h, k)

\* every node that can cast a vote that changes the state eventually casts one
FairVotes == \A node_id \in NodeIds, h \in Digests : WF_vars(CastVoteOf(node_id, h))

NextLive == DoCastVote \/ DoPropose

SpecLive == Init /\ [][NextLive]_vars /\ FairVotes

----------------------------------------------------------------------------
(* The nodes of run_simulation: one shared DAG, one ledger per node *)

\* validator_ids, the committee of the run
validator_ids == << "validator_0", "validator_1", "validator_2", "validator_3" >>

\* the digest the committee of the run votes on
VotedDigests == {"sv1"}

\* shared_dag.add_vertex(vertex)
AddVertex(vertex) ==
    LET r == AddVertexResult(vertices, tips, vertex)
    IN  /\ vertices' = r.vertices
        /\ tips' = r.tips
        /\ returned' = Returned("add_vertex", r.ok)
        /\ UNCHANGED <<consensusVars, threadVars, creationVars, super_vertices, ledgerVars, applied>>

\* shared_dag.add_super_vertex(super_vertex)
AddSuperVertex(super_vertex) ==
    LET r == AddSuperVertexResult(super_vertices, super_vertex)
    IN  /\ super_vertices' = r.super_vertices
        /\ returned' = Returned("add_super_vertex", r.ok)
        /\ UNCHANGED <<consensusVars, threadVars, creationVars, vertices, tips, ledgerVars, applied>>

\* the state run_simulation has built when voting starts: the committee, the
\* shared DAG holding vertex1 and the super-vertex, validator_0's ledger credited
InitNode ==
    /\ current_committee = validator_ids
    /\ committee_history = << current_committee >>
    /\ pending_votes = << >>
    /\ finalized_super_vertices = {}
    /\ log = "initialized"
    /\ prior = NoPrior
    /\ thread = [ t \in NodeIds |-> Idle ]
    /\ calls_made = [ t \in NodeIds |-> 0 ]
    /\ finalize_calls = {}
    /\ raised = {}
    /\ vertices = AddVertexResult(<< >>, {}, Vertex("vx1")).vertices
    /\ tips = AddVertexResult(<< >>, {}, Vertex("vx1")).tips
    /\ super_vertices = AddSuperVertexResult(<< >>, SuperVertex("sv1")).super_vertices
    /\ balances = [ n \in NodeIds |->
                      IF n = "validator_0"
                      THEN Credit(Credit(EmptyBalances, "user_0", 10000), "user_1", 10000)
                      ELSE EmptyBalances ]
    /\ pools = [ n \in NodeIds |-> EmptyPools ]
    /\ applied = [ n \in NodeIds |-> << >> ]
    /\ returned = NoReturn
    /\ mempool = [ n \in NodeIds |-> << >> ]
    /\ built = << >>
    /\ checkpoints = << >>

DoNodePropose ==
    \E h \in VotedDigests :
        ProposeSuperVertex("validator_2", h, KeyPair("validator_2").private_key)

DoNodeCastVote ==
    \E node_id \in NodeIds, h \in VotedDigests :
        CastVote(node_id, h, KeyPair(node_id).private_key)

DoAddVertex == \E hash \in {"vx1", "vx2"} : AddVertex(Vertex(hash))

DoAddSuperVertex == \E hash \in Digests : AddSuperVertex(SuperVertex(hash))

DoProcess ==
    \E node_id \in ApplyingNodes, hash \in Digests :
        ProcessFinalizedSuperVertex(node_id, SuperVertex(hash))

NextNode ==
    \/ DoNodePropose
    \/ DoNodeCastVote
    \/ DoAddVertex
    \/ DoAddSuperVertex
    \/ DoProcess

SpecNode == InitNode /\ [][NextNode]_vars

----------------------------------------------------------------------------
(* The DAG store driven by add_vertex, add_super_vertex and get_unconfirmed_vertices *)

\* digests of the batches handed to add_vertex
VertexHashes ==
    { "vx1", "vx2", "vx3", "vx_fork", "vx_empty", "vx_orphan", "vx_mixed", "vx_self" }

\* digests of the checkpoints handed to add_super_vertex
SuperVertexHashes == { "sv1", "sv2", "sv3" }

\* dag.get_unconfirmed_vertices()
GetUnconfirmed ==
    /\ returned' = ReturnedList("get_unconfirmed_vertices",
                                GetUnconfirmedVertices(vertices, super_vertices))
    /\ UNCHANGED <<consensusVars, threadVars, creationVars, dagVars, ledgerVars, applied>>

\* a DAG() just constructed
InitDag ==
    /\ Init
    /\ current_committee = validator_ids

DoDagAddVertex == \E hash \in VertexHashes : AddVertex(Vertex(hash))

DoDagAddSuperVertex == \E hash \in SuperVertexHashes : AddSuperVertex(SuperVertex(hash))

DoGetUnconfirmed == GetUnconfirmed

NextDag == DoDagAddVertex \/ DoDagAddSuperVertex \/ DoGetUnconfirmed

SpecDag == InitDag /\ [][NextDag]_vars

----------------------------------------------------------------------------
(* One ledger driven by credit, apply_transaction and distribute_fee *)

\* the node whose ledger_state is called
LedgerNode == "validator_0"

\* addresses, amounts and fees handed to the ledger
LedgerAccounts == { "user_0", "user_1" }

Amounts == { -10, 10, 30 }

Fees == { 0, 5, 10 }

\* the balances stay within the range explored
WithinRange(bal) == \A a \in AccountIds : -MaxBalance <= bal[a] /\ bal[a] <= MaxBalance

\* ledger_state.credit(address, amount)
CreditAccount(node_id, address, amount) ==
    LET bal == Credit(balances[node_id], address, amount)
    IN  /\ WithinRange(bal)
        /\ balances' = [ balances EXCEPT ![node_id] = bal ]
        /\ returned' = [ NoReturn EXCEPT !.op = "credit" ]
        /\ UNCHANGED <<consensusVars, threadVars, creationVars, dagVars, pools, applied>>

\* ledger_state.apply_transaction(sender, recipient, amount, fee)
ApplyTransactionCall(node_id, sender, recipient, amount, fee) ==
    LET r == ApplyTransaction(balances[node_id], sender, recipient, amount, fee)
    IN  /\ WithinRange(r.balances)
        /\ balances' = [ balances EXCEPT ![node_id] = r.balances ]
        /\ returned' = Returned("apply_transaction", r.ok)
        /\ UNCHANGED <<consensusVars, threadVars, creationVars, dagVars, pools, applied>>

\* ledger_state.distribute_fee(fee_model.get_fee_breakdown(total_fee))
DistributeFeeCall(node_id, total_fee) ==
    LET p == DistributeFee(pools[node_id], GetFeeBreakdown(total_fee))
    IN  /\ p.validator_share_pool <= MaxPool
        /\ pools' = [ pools EXCEPT ![node_id] = p ]
        /\ returned' = [ NoReturn EXCEPT !.op = "distribute_fee" ]
        /\ UNCHANGED <<consensusVars, threadVars, creationVars, dagVars, balances, applied>>

\* a LedgerState() just constructed
InitLedger ==
    /\ Init
    /\ current_committee = validator_ids

DoLedgerCredit ==
    \E address \in LedgerAccounts, amount \in Amounts :
        CreditAccount(LedgerNode, address, amount)

DoApplyTransaction ==
    \E sender \in LedgerAccounts, recipient \in LedgerAccounts,
       amount \in Amounts, fee \in Fees :
        ApplyTransactionCall(LedgerNode, sender, recipient, amount, fee)

DoDistributeFee == \E total_fee \in Fees : DistributeFeeCall(LedgerNode, total_fee)

NextLedger == DoLedgerCredit \/ DoApplyTransaction \/ DoDistributeFee

SpecLedger == InitLedger /\ [][NextLedger]_vars

----------------------------------------------------------------------------
(* The fee model and the pools, on fees of any size *)

\* largest of the small fees, and number of fees taken on either side of 2 ^ 53
MaxSmallFee == 15

MaxOffset == 8

\* the first int that has no float: 2 ^ 1024 - 2 ^ 970
FirstOverflow == WSub(WShiftLeft(<< 1 >>, 1024), WShiftLeft(<< 1 >>, 970))

FeeInputs ==
    { Z(TRUE, ToWide(3)) }
    \cup { Z(FALSE, ToWide(k)) : k \in 0..MaxSmallFee }
    \cup { Z(FALSE, WSub(WShiftLeft(<< 1 >>, 53), ToWide(k))) : k \in 1..MaxOffset }
    \cup { Z(FALSE, WAdd(WShiftLeft(<< 1 >>, 53), ToWide(k))) : k \in 0..MaxOffset }
    \cup { Z(FALSE, Decimal(<< 7956, 7784, 7625, 6669 >>)),
           Z(FALSE, Decimal(<< 8277, 1809, 4405, 7143 >>)),
           Z(FALSE, WSub(FirstOverflow, << 1 >>)),
           Z(FALSE, FirstOverflow) }

WidePools(validator, ubi, carbon, gratitude) ==
    [ validator_share_pool |-> Z(FALSE, ToWide(validator)),
      ubi_share_pool |-> Z(FALSE, ToWide(ubi)),
      carbon_share_pool |-> Z(FALSE, ToWide(carbon)),
      gratitude_share_pool |-> Z(FALSE, ToWide(gratitude)) ]

\* the pools of a new ledger, and the pools run_simulation ends with
InitialPools == { WidePools(0, 0, 0, 0), WidePools(10, 3, 1, 1) }

\* fee_breakdown = fee_model.get_fee_breakdown(total_fee)
GetFeeBreakdownCall(total_fee) ==
    LET r == GetFeeBreakdownFloat(total_fee)
    IN  /\ returned.op # "distribute_fee"
        /\ returned' = [ op |-> "get_fee_breakdown", args |-> << total_fee >>,
                         value |-> r.raised,
                         list |-> IF r.raised = "None" THEN << r >> ELSE << >> ]
        /\ UNCHANGED <<consensusVars, threadVars, creationVars, dagVars, ledgerVars,
                       applied>>

\* ledger_state.distribute_fee(fee_breakdown), with the breakdown just returned
DistributeFeeWideCall(node_id) ==
    /\ returned.op = "get_fee_breakdown"
    /\ returned.value = "None"
    /\ pools' = [ pools EXCEPT ![node_id] = DistributeFeeWide(@, returned.list[1]) ]
    /\ returned' = [ returned EXCEPT !.op = "distribute_fee" ]
    /\ UNCHANGED <<consensusVars, threadVars, creationVars, dagVars, balances, applied>>

InitFee ==
    /\ current_committee = validator_ids
    /\ committee_history = << current_committee >>
    /\ pending_votes = << >>
    /\ finalized_super_vertices = {}
    /\ log = "initialized"
    /\ prior = NoPrior
    /\ thread = [ t \in NodeIds |-> Idle ]
    /\ calls_made = [ t \in NodeIds |-> 0 ]
    /\ finalize_calls = {}
    /\ raised = {}
    /\ vertices = << >>
    /\ super_vertices = << >>
    /\ tips = {}
    /\ balances = [ n \in NodeIds |-> EmptyBalances ]
    /\ \E p \in InitialPools : pools = [ n \in NodeIds |-> p ]
    /\ applied = [ n \in NodeIds |-> << >> ]
    /\ returned = NoReturn
    /\ mempool = [ n \in NodeIds |-> << >> ]
    /\ built = << >>
    /\ checkpoints = << >>

DoGetFeeBreakdown == \E total_fee \in FeeInputs : GetFeeBreakdownCall(total_fee)

DoDistributeFeeWide == DistributeFeeWideCall(LedgerNode)

NextFee == DoGetFeeBreakdown \/ DoDistributeFeeWide

SpecFee == InitFee /\ [][NextFee]_vars

----------------------------------------------------------------------------
(* Checkpoints applied to a ledger that holds amounts and fees of any size *)

\* process_finalized_super_vertex calls made on the node
MaxTransfers == 2

\* transfers with amount >= 0 and fee >= 0: those of the reference run, one
\* without amount and fee, one to the sender itself, one beyond the sender's
\* funds, and fees of 53 and of 1024 bits
WideTx(id) ==
    CASE id = "wt1" ->
            Transaction("user_0", "user_1", Z(FALSE, ToWide(100)), Z(FALSE, ToWide(10)),
                        id, "sk_user_0")
      [] id = "wt2" ->
            Transaction("user_1", "user_0", Z(FALSE, ToWide(50)), Z(FALSE, ToWide(5)),
                        id, "sk_user_1")
      [] id = "wt_zero" ->
            Transaction("user_1", "user_0", Zero, Zero, id, "sk_user_1")
      [] id = "wt_self" ->
            Transaction("user_0", "user_0", Z(FALSE, ToWide(7)), Z(FALSE, ToWide(3)),
                        id, "sk_user_0")
      [] id = "wt_poor" ->
            Transaction("user_1", "user_0", Z(FALSE, WShiftLeft(<< 1 >>, 53)),
                        Z(FALSE, ToWide(1)), id, "sk_user_1")
      [] id = "wt_53" ->
            Transaction("user_0", "user_1", Z(FALSE, ToWide(1)),
                        Z(FALSE, Decimal(<< 7956, 7784, 7625, 6669 >>)), id, "sk_user_0")
      [] OTHER ->
            Transaction("user_0", "user_1", Z(FALSE, ToWide(100)), Z(FALSE, FirstOverflow),
                        id, "sk_user_0")

\* the stored batches, by digest
WideVertexHashes ==
    << "wv1", "wv2", "wv_run", "wv_zero", "wv_self", "wv_poor", "wv_53", "wv_big",
       "wv_big_then" >>

WideVertex(hash) ==
    [ hash |-> hash,
      transactions |->
          CASE hash = "wv1" -> << WideTx("wt1") >>
            [] hash = "wv2" -> << WideTx("wt2") >>
            [] hash = "wv_run" -> << WideTx("wt1"), WideTx("wt2") >>
            [] hash = "wv_zero" -> << WideTx("wt_zero") >>
            [] hash = "wv_self" -> << WideTx("wt_self") >>
            [] hash = "wv_poor" -> << WideTx("wt_poor"), WideTx("wt1") >>
            [] hash = "wv_53" -> << WideTx("wt_53") >>
            [] hash = "wv_big" -> << WideTx("wt_big") >>
            [] OTHER -> << WideTx("wt_big"), WideTx("wt2") >>,
      parent_hashes |-> << "genesis" >>, creator_id |-> "validator_0" ]

\* the cohorts of the checkpoints applied: each stored batch alone, two batches,
\* and a stored batch after one that is not stored
WideCohorts ==
    { << WideVertexHashes[i] >> : i \in 1..Len(WideVertexHashes) }
        \cup { << "wv1", "wv2" >>, << "vx_absent", "wv2" >> }

\* lines 102-124: one transaction; raised is the exception get_fee_breakdown
\* ended with, which nothing catches
ProcessTransactionWide(ledger, tx) ==
    IF tx.sender \notin DOMAIN KnownPeers
    THEN ledger
    ELSE IF ~Verify(KnownPeers[tx.sender],
                    Message(tx.sender, tx.recipient, tx.amount, tx.fee, tx.id),
                    tx.signature)
    THEN ledger
    ELSE LET r == ApplyTransactionWide(ledger.balances, tx.sender, tx.recipient,
                                       tx.amount, tx.fee)
         IN  IF ~r.ok THEN ledger
             ELSE IF GetFeeBreakdownFloat(tx.fee).raised # "None"
             THEN [ balances |-> r.balances, pools |-> ledger.pools,
                    raised |-> GetFeeBreakdownFloat(tx.fee).raised ]
             ELSE [ balances |-> r.balances,
                    pools |-> DistributeFeeWide(ledger.pools,
                                                GetFeeBreakdownFloat(tx.fee)),
                    raised |-> "None" ]

\* the two loops of lines 93-124 over the transactions still to come, batch by
\* batch; an exception ends the call
RECURSIVE ProcessWide(_, _, _, _)
ProcessWide(ledger, stored, cohort, txs) ==
    IF ledger.raised # "None" THEN ledger
    ELSE IF txs # << >>
    THEN ProcessWide(ProcessTransactionWide(ledger, Head(txs)), stored, cohort, Tail(txs))
    ELSE IF cohort = << >> THEN ledger
    ELSE ProcessWide(ledger, stored, Tail(cohort),
                     IF HasVertex(stored, Head(cohort))
                     THEN WideVertex(Head(cohort)).transactions ELSE << >>)

\* Node.process_finalized_super_vertex; returned holds the exception that ended it
ProcessFinalizedSuperVertexWide(node_id, cohort_hashes) ==
    LET r == ProcessWide([ balances |-> balances[node_id], pools |-> pools[node_id],
                           raised |-> "None" ],
                         vertices, cohort_hashes, << >>)
    IN  /\ Len(applied[node_id]) < MaxTransfers
        /\ balances' = [ balances EXCEPT ![node_id] = r.balances ]
        /\ pools' = [ pools EXCEPT ![node_id] = r.pools ]
        /\ applied' = [ applied EXCEPT ![node_id] = Append(@, cohort_hashes) ]
        /\ returned' = [ op |-> "process_finalized_super_vertex",
                         args |-> << cohort_hashes >>, value |-> r.raised,
                         list |-> << >> ]
        /\ UNCHANGED <<consensusVars, threadVars, creationVars, dagVars>>

\* a node whose DAG holds the batches and whose ledger was credited: user_0 with
\* 2 ^ 1025, user_1 with 1000
InitSupply ==
    /\ current_committee = validator_ids
    /\ committee_history = << current_committee >>
    /\ pending_votes = << >>
    /\ finalized_super_vertices = {}
    /\ log = "initialized"
    /\ prior = NoPrior
    /\ thread = [ t \in NodeIds |-> Idle ]
    /\ calls_made = [ t \in NodeIds |-> 0 ]
    /\ finalize_calls = {}
    /\ raised = {}
    /\ vertices = WideVertexHashes
    /\ super_vertices = << >>
    /\ tips = Range(WideVertexHashes)
    /\ balances = [ n \in NodeIds |->
                      [ a \in AccountIds |->
                          IF n = LedgerNode /\ a = "user_0"
                          THEN Z(FALSE, WShiftLeft(<< 1 >>, 1025))
                          ELSE IF n = LedgerNode /\ a = "user_1"
                          THEN Z(FALSE, ToWide(1000))
                          ELSE Zero ] ]
    /\ pools = [ n \in NodeIds |-> WidePools(0, 0, 0, 0) ]
    /\ applied = [ n \in NodeIds |-> << >> ]
    /\ returned = NoReturn
    /\ mempool = [ n \in NodeIds |-> << >> ]
    /\ built = << >>
    /\ checkpoints = << >>

DoProcessWide ==
    \E cohort_hashes \in WideCohorts :
        ProcessFinalizedSuperVertexWide(LedgerNode, cohort_hashes)

NextSupply == DoProcessWide

SpecSupply == InitSupply /\ [][NextSupply]_vars

----------------------------------------------------------------------------
(* cast_vote run by several engine instances at once, one statement at a time, *)
(* on the class-level pending_votes and finalized_super_vertices               *)

\* the caller's locals are dropped when the call ends
Return(t) == [ thread EXCEPT ![t] = Idle ]

Goto(t, label) == [ thread EXCEPT ![t].pc = label ]

\* the dict object that was pending_votes[h] is unlinked (deleted or replaced):
\* the references other threads hold to it keep its content
Unlink(thr, h, t) ==
    [ u \in NodeIds |->
        IF u # t /\ thr[u].digest = h /\ thr[u].votes.live
        THEN [ thr[u] EXCEPT !.votes = [ live |-> FALSE, items |-> pending_votes[h] ] ]
        ELSE thr[u] ]

\* len(votes) of the dict the local variable votes refers to
LenVotes(t) ==
    IF thread[t].votes.live THEN Cardinality(pending_votes[thread[t].digest])
    ELSE Cardinality(thread[t].votes.items)

\* a thread enters cast_vote(h, key)
Call(t, h, key) ==
    /\ thread[t].pc = "idle"
    /\ calls_made[t] < MaxCalls
    /\ thread' = [ thread EXCEPT ![t] = [ pc |-> "L63", digest |-> h, key |-> key,
                                          votes |-> NoRef ] ]
    /\ calls_made' = [ calls_made EXCEPT ![t] = @ + 1 ]
    /\ UNCHANGED <<consensusVars, finalize_calls, raised>>
    /\ UNCHANGED nodeVars

\* if self.node_id not in self.committee_manager.get_current_committee(): return
StmtMember(t) ==
    /\ thread[t].pc = "L63"
    /\ IF InCommittee(t, get_current_committee)
       THEN thread' = Goto(t, "L67") /\ UNCHANGED log
       ELSE thread' = Return(t) /\ log' = "cannot_vote"
    /\ UNCHANGED <<current_committee, committee_history, pending_votes,
                   finalized_super_vertices, prior, calls_made, finalize_calls, raised>>
    /\ UNCHANGED nodeVars

\* if super_vertex_hash in self.finalized_super_vertices: return
StmtFinalized(t) ==
    /\ thread[t].pc = "L67"
    /\ IF thread[t].digest \in finalized_super_vertices
       THEN thread' = Return(t) /\ log' = "already_finalized"
       ELSE thread' = Goto(t, "L72") /\ UNCHANGED log
    /\ UNCHANGED <<current_committee, committee_history, pending_votes,
                   finalized_super_vertices, prior, calls_made, finalize_calls, raised>>
    /\ UNCHANGED nodeVars

\* if super_vertex_hash not in self.pending_votes:
StmtTallyTest(t) ==
    /\ thread[t].pc = "L72"
    /\ thread' = Goto(t, IF thread[t].digest \in DOMAIN pending_votes
                         THEN "L78" ELSE "L73")
    /\ UNCHANGED <<consensusVars, calls_made, finalize_calls, raised>>
    /\ UNCHANGED nodeVars

\* self.pending_votes[super_vertex_hash] = {}
StmtTallyCreate(t) ==
    /\ thread[t].pc = "L73"
    /\ LET h == thread[t].digest
       IN  /\ pending_votes' =
                [ x \in DOMAIN pending_votes \cup {h} |->
                    IF x = h THEN {} ELSE pending_votes[x] ]
           /\ thread' = [ (IF h \in DOMAIN pending_votes
                           THEN Unlink(thread, h, t) ELSE thread)
                          EXCEPT ![t].pc = "L78" ]
    /\ UNCHANGED <<current_committee, committee_history, finalized_super_vertices,
                   log, prior, calls_made, finalize_calls, raised>>
    /\ UNCHANGED nodeVars

\* signature = sign(private_key, h); self.pending_votes[h][self.node_id] = signature
StmtRecord(t) ==
    /\ thread[t].pc = "L78"
    /\ LET h == thread[t].digest
       IN  IF h \in DOMAIN pending_votes
           THEN /\ pending_votes' =
                     RecordVote(pending_votes, h, t, Sign(thread[t].key, h))
                /\ thread' = Goto(t, "L81")
                /\ UNCHANGED raised
           ELSE /\ thread' = Return(t)
                /\ raised' = raised \cup {t}
                /\ UNCHANGED pending_votes
    /\ UNCHANGED <<current_committee, committee_history, finalized_super_vertices,
                   log, prior, calls_made, finalize_calls>>
    /\ UNCHANGED nodeVars

\* vote_count = len(self.pending_votes[h]); the vote is logged
StmtCount(t) ==
    /\ thread[t].pc = "L81"
    /\ IF thread[t].digest \in DOMAIN pending_votes
       THEN thread' = Goto(t, "L91") /\ log' = "vote_cast" /\ UNCHANGED raised
       ELSE thread' = Return(t) /\ raised' = raised \cup {t} /\ UNCHANGED log
    /\ UNCHANGED <<current_committee, committee_history, pending_votes,
                   finalized_super_vertices, prior, calls_made, finalize_calls>>
    /\ UNCHANGED nodeVars

\* committee = get_current_committee(); votes = self.pending_votes.get(h, {})
StmtGetVotes(t) ==
    /\ thread[t].pc = "L91"
    /\ thread' = [ thread EXCEPT
                     ![t].pc = "L95",
                     ![t].votes = IF thread[t].digest \in DOMAIN pending_votes
                                  THEN [ live |-> TRUE, items |-> {} ]
                                  ELSE NoRef ]
    /\ UNCHANGED <<consensusVars, calls_made, finalize_calls, raised>>
    /\ UNCHANGED nodeVars

\* required_votes = int(len(committee) * 2 / 3) + 1; if len(votes) >= required_votes:
StmtThreshold(t) ==
    /\ thread[t].pc = "L95"
    /\ IF LenVotes(t) >= RequiredVotes(get_current_committee)
       THEN thread' = Goto(t, "L96") /\ UNCHANGED log
       ELSE thread' = Return(t) /\ log' = "not_enough_votes"
    /\ UNCHANGED <<current_committee, committee_history, pending_votes,
                   finalized_super_vertices, prior, calls_made, finalize_calls, raised>>
    /\ UNCHANGED nodeVars

\* self.finalized_super_vertices.add(h); the finalization is logged
StmtFinalize(t) ==
    /\ thread[t].pc = "L96"
    /\ finalized_super_vertices' =
            AddFinalized(finalized_super_vertices, thread[t].digest)
    /\ finalize_calls' = finalize_calls \cup { <<t, thread[t].digest>> }
    /\ log' = "finalized"
    /\ thread' = Goto(t, "L100")
    /\ UNCHANGED <<current_committee, committee_history, pending_votes, prior,
                   calls_made, raised>>
    /\ UNCHANGED nodeVars

\* del self.pending_votes[h]
StmtDelete(t) ==
    /\ thread[t].pc = "L100"
    /\ LET h == thread[t].digest
       IN  IF h \in DOMAIN pending_votes
           THEN /\ pending_votes' = DeleteTally(pending_votes, h)
                /\ thread' = [ Unlink(thread, h, t) EXCEPT ![t] = Idle ]
                /\ UNCHANGED raised
           ELSE /\ thread' = Return(t)
                /\ raised' = raised \cup {t}
                /\ UNCHANGED pending_votes
    /\ UNCHANGED <<current_committee, committee_history, finalized_super_vertices,
                   log, prior, calls_made, finalize_calls>>
    /\ UNCHANGED nodeVars

\* the digest the concurrent callers vote for
ConcurrentDigests == {"sv1"}

DoCall == \E t \in NodeIds, h \in ConcurrentDigests : \E k \in PrivateKeys(t) : Call(t, h, k)

DoStatement ==
    \E t \in NodeIds :
        \/ StmtMember(t)
        \/ StmtFinalized(t)
        \/ StmtTallyTest(t)
        \/ StmtTallyCreate(t)
        \/ StmtRecord(t)
        \/ StmtCount(t)
        \/ StmtGetVotes(t)
        \/ StmtThreshold(t)
        \/ StmtFinalize(t)
        \/ StmtDelete(t)

NextConcurrent == DoCall \/ DoStatement

InitConcurrent == Init

SpecConcurrent == InitConcurrent /\ [][NextConcurrent]_vars

----------------------------------------------------------------------------
(* Two nodes applying finalized checkpoints to ledgers that start alike *)

\* the batches a run may find stored, in the order they were admitted, and the
\* checkpoints the committee has finalized
ApplyVertices == << "vx1", "vx7", "vx8", "vx_mix" >>

ApplyDigests == { "sv1", "sv4", "sv5" }

ApplySuperVertices == << "sv1", "sv4", "sv5" >>

\* add_vertex called for each batch of the list, on a new DAG
RECURSIVE AddVertices(_)
AddVertices(hashes) ==
    IF hashes = << >> THEN [ vertices |-> << >>, tips |-> {} ]
    ELSE LET before == AddVertices(SubSeq(hashes, 1, Len(hashes) - 1))
         IN  AddVertexResult(before.vertices, before.tips, Vertex(hashes[Len(hashes)]))

\* each applying node's ledger was credited as run_simulation credits
\* validator_0's, some of the batches were admitted, and the checkpoints were
\* stored and finalized
InitApply ==
    /\ current_committee = validator_ids
    /\ committee_history = << current_committee >>
    /\ pending_votes = << >>
    /\ finalized_super_vertices = ApplyDigests
    /\ log = "finalized"
    /\ prior = NoPrior
    /\ thread = [ t \in NodeIds |-> Idle ]
    /\ calls_made = [ t \in NodeIds |-> 0 ]
    /\ finalize_calls = {}
    /\ raised = {}
    /\ \E S \in SUBSET { ApplyVertices[i] : i \in 1..Len(ApplyVertices) } :
          LET IsChosen(h) == h \in S
              dag == AddVertices(SelectSeq(ApplyVertices, IsChosen))
          IN  vertices = dag.vertices /\ tips = dag.tips
    /\ super_vertices = ApplySuperVertices
    /\ balances = [ n \in NodeIds |->
                      IF n \in ApplyingNodes
                      THEN Credit(Credit(EmptyBalances, "user_0", 10000), "user_1", 10000)
                      ELSE EmptyBalances ]
    /\ pools = [ n \in NodeIds |-> EmptyPools ]
    /\ applied = [ n \in NodeIds |-> << >> ]
    /\ returned = NoReturn
    /\ mempool = [ n \in NodeIds |-> << >> ]
    /\ built = << >>
    /\ checkpoints = << >>

DoApply ==
    \E node_id \in ApplyingNodes, hash \in ApplyDigests :
        ProcessFinalizedSuperVertex(node_id, SuperVertex(hash))

NextApply == DoApply

SpecApply == InitApply /\ [][NextApply]_vars

----------------------------------------------------------------------------
(* A producer node: mempool, create_vertex, and the application of the batch *)

\* transactions a run queues in one mempool
MaxMempool == 2

\* the node whose create_vertex is called
ProducerNode == "validator_0"

QueuedIds == { "tx2", "tx7", "tx8" }

\* values of time.time()
Timestamps == { 1, 2 }

\* the keys of the mempool list reversed
MempoolTransactionsReversed(queue) ==
    [ i \in 1..Len(queue) |-> Tx(queue[Len(queue) + 1 - i]) ]

\* list(self.mempool)
MempoolTransactions(queue) == [ i \in 1..Len(queue) |-> Tx(queue[i]) ]

\* self.dag.get_tips() or ['genesis']: list(self.tips) lists a set, in any order
TipLists(t) ==
    IF t = {} THEN { << "genesis" >> }
    ELSE { l \in [ 1..Cardinality(t) -> t ] : \A h \in t : InSeq(h, l) }

\* mempool.append(tx) in create_transaction, mempool.extend in run_simulation
AppendToMempool(node_id, id) ==
    /\ Len(mempool[node_id]) < MaxMempool
    /\ ~InSeq(id, mempool[node_id])
    /\ mempool' = [ mempool EXCEPT ![node_id] = Append(@, id) ]
    /\ returned' = [ NoReturn EXCEPT !.op = "mempool.append" ]
    /\ UNCHANGED <<consensusVars, threadVars, dagVars, ledgerVars, applied, built,
                 checkpoints>>

\* Node.create_vertex; returned holds the vertex the call returns and, as value,
\* what add_vertex answered
CreateVertex(node_id, parent_hashes, timestamp) ==
    IF mempool[node_id] = << >>
    THEN /\ returned' = [ NoReturn EXCEPT !.op = "create_vertex" ]
         /\ UNCHANGED <<consensusVars, threadVars, creationVars, dagVars, ledgerVars,
                        applied>>
    ELSE LET vertex == NewVertex(MempoolTransactions(mempool[node_id]), parent_hashes,
                                 node_id, timestamp)
             r == AddVertexResult(vertices, tips, vertex)
         IN  /\ parent_hashes \in TipLists(tips)
             /\ mempool' = [ mempool EXCEPT ![node_id] = << >> ]
             /\ vertices' = r.vertices
             /\ tips' = r.tips
             /\ built' = IF r.ok THEN Append(built, vertex) ELSE built
             /\ returned' = [ op |-> "create_vertex", args |-> << >>,
                              value |-> IF r.ok THEN "True" ELSE "False",
                              list |-> << vertex >> ]
             /\ UNCHANGED <<consensusVars, threadVars, super_vertices, ledgerVars,
                            applied, checkpoints>>

\* run_simulation lines 83-99 and 122: a checkpoint over the latest stored batch
\* is built and handed to process_finalized_super_vertex
ProcessLatest(node_id, timestamp) ==
    /\ vertices # << >>
    /\ ProcessFinalizedSuperVertex(node_id,
          NewSuperVertex(<< vertices[Len(vertices)] >>, "genesis_sv", "validator_2",
                         timestamp))

\* the nodes of run_simulation after set-up, before any transaction is queued
InitCreate ==
    /\ current_committee = validator_ids
    /\ committee_history = << current_committee >>
    /\ pending_votes = << >>
    /\ finalized_super_vertices = {}
    /\ log = "initialized"
    /\ prior = NoPrior
    /\ thread = [ t \in NodeIds |-> Idle ]
    /\ calls_made = [ t \in NodeIds |-> 0 ]
    /\ finalize_calls = {}
    /\ raised = {}
    /\ vertices = << >>
    /\ super_vertices = << >>
    /\ tips = {}
    /\ balances = [ n \in NodeIds |->
                      IF n = "validator_0"
                      THEN Credit(Credit(EmptyBalances, "user_0", 10000), "user_1", 10000)
                      ELSE EmptyBalances ]
    /\ pools = [ n \in NodeIds |-> EmptyPools ]
    /\ applied = [ n \in NodeIds |-> << >> ]
    /\ returned = NoReturn
    /\ mempool = [ n \in NodeIds |-> << >> ]
    /\ built = << >>
    /\ checkpoints = << >>

DoAppendToMempool == \E id \in QueuedIds : AppendToMempool(ProducerNode, id)

DoCreateVertex ==
    \E parent_hashes \in TipLists(tips), timestamp \in Timestamps :
        CreateVertex(ProducerNode, parent_hashes, timestamp)

DoProcessLatest == \E timestamp \in Timestamps : ProcessLatest(ProducerNode, timestamp)

NextCreate == DoAppendToMempool \/ DoCreateVertex \/ DoProcessLatest

SpecCreate == InitCreate /\ [][NextCreate]_vars

----------------------------------------------------------------------------
(* Checkpoints built over the batch of the run, voted on and applied *)

\* SuperVertex objects a run constructs
MaxCheckpoints == 2

\* vertex1 of run_simulation: create_vertex of validator_0 on the mempool [tx1, tx2]
RunVertex ==
    NewVertex(MempoolTransactions(<< "tx1", "tx2" >>), << "genesis" >>, "validator_0", 1)

\* the checkpoint of run_simulation
RunSuperVertex == NewSuperVertex(<< RunVertex.hash >>, "genesis_sv", "validator_2", 1)

\* the arguments of SuperVertex(...): those of the run, the same with a later
\* timestamp, with another creator, with a parent checkpoint, and cohorts of none,
\* two and three digests, of which only that of vertex1 is stored
CheckpointChoices ==
    { [ cohort_hashes |-> << RunVertex.hash >>, parent_super_vertex_hash |-> "genesis_sv",
        creator_id |-> "validator_2", timestamp |-> 1 ],
      [ cohort_hashes |-> << RunVertex.hash >>, parent_super_vertex_hash |-> "genesis_sv",
        creator_id |-> "validator_2", timestamp |-> 2 ],
      [ cohort_hashes |-> << RunVertex.hash >>, parent_super_vertex_hash |-> "genesis_sv",
        creator_id |-> "validator_0", timestamp |-> 1 ],
      [ cohort_hashes |-> << RunVertex.hash >>,
        parent_super_vertex_hash |-> RunSuperVertex.hash,
        creator_id |-> "validator_2", timestamp |-> 1 ],
      [ cohort_hashes |-> << >>, parent_super_vertex_hash |-> "genesis_sv",
        creator_id |-> "validator_2", timestamp |-> 1 ],
      [ cohort_hashes |-> << "vx2", RunVertex.hash >>,
        parent_super_vertex_hash |-> "genesis_sv",
        creator_id |-> "validator_2", timestamp |-> 1 ],
      [ cohort_hashes |-> << RunVertex.hash, "vx2" >>,
        parent_super_vertex_hash |-> "genesis_sv",
        creator_id |-> "validator_2", timestamp |-> 1 ],
      [ cohort_hashes |-> << RunVertex.hash, "vx2", "vx_absent" >>,
        parent_super_vertex_hash |-> "genesis_sv",
        creator_id |-> "validator_2", timestamp |-> 1 ] }

\* run_simulation lines 95-100: super_vertex = SuperVertex(...), then
\* shared_dag.add_super_vertex(super_vertex)
BuildSuperVertex(cohort_hashes, parent_super_vertex_hash, creator_id, timestamp) ==
    LET super_vertex == NewSuperVertex(cohort_hashes, parent_super_vertex_hash,
                                       creator_id, timestamp)
        r == AddSuperVertexResult(super_vertices, super_vertex)
    IN  /\ Len(checkpoints) < MaxCheckpoints
        /\ checkpoints' = Append(checkpoints, super_vertex)
        /\ super_vertices' = r.super_vertices
        /\ returned' = [ op |-> "SuperVertex", args |-> << >>,
                         value |-> IF r.ok THEN "True" ELSE "False",
                         list |-> << super_vertex >> ]
        /\ UNCHANGED <<consensusVars, threadVars, mempool, built, vertices, tips,
                       ledgerVars, applied>>

\* run_simulation line 104: the creator proposes its checkpoint
ProposeBuilt(super_vertex) ==
    ProposeSuperVertex(super_vertex.creator_id, super_vertex.hash,
                       KeyPair(super_vertex.creator_id).private_key)

\* run_simulation lines 107-109: a node votes for the digest of a checkpoint
CastVoteBuilt(node_id, super_vertex) ==
    CastVote(node_id, super_vertex.hash, KeyPair(node_id).private_key)

\* run_simulation lines 116-122: the checkpoint whose digest is in the finalized
\* set is handed to process_finalized_super_vertex
ProcessBuilt(node_id, super_vertex) ==
    /\ super_vertex.hash \in finalized_super_vertices
    /\ ProcessFinalizedSuperVertex(node_id, super_vertex)

\* the state run_simulation has built at line 76: the committee, the shared DAG
\* holding vertex1, validator_0's ledger credited
InitCheckpoint ==
    /\ current_committee = validator_ids
    /\ committee_history = << current_committee >>
    /\ pending_votes = << >>
    /\ finalized_super_vertices = {}
    /\ log = "initialized"
    /\ prior = NoPrior
    /\ thread = [ t \in NodeIds |-> Idle ]
    /\ calls_made = [ t \in NodeIds |-> 0 ]
    /\ finalize_calls = {}
    /\ raised = {}
    /\ vertices = AddVertexResult(<< >>, {}, RunVertex).vertices
    /\ tips = AddVertexResult(<< >>, {}, RunVertex).tips
    /\ super_vertices = << >>
    /\ balances = [ n \in NodeIds |->
                      IF n = "validator_0"
                      THEN Credit(Credit(EmptyBalances, "user_0", 10000), "user_1", 10000)
                      ELSE EmptyBalances ]
    /\ pools = [ n \in NodeIds |-> EmptyPools ]
    /\ applied = [ n \in NodeIds |-> << >> ]
    /\ returned = NoReturn
    /\ mempool = [ n \in NodeIds |-> << >> ]
    /\ built = << RunVertex >>
    /\ checkpoints = << >>

DoBuildSuperVertex ==
    \E c \in CheckpointChoices :
        BuildSuperVertex(c.cohort_hashes, c.parent_super_vertex_hash, c.creator_id,
                         c.timestamp)

DoProposeBuilt == \E i \in 1..Len(checkpoints) : ProposeBuilt(checkpoints[i])

DoCastVoteBuilt ==
    \E node_id \in NodeIds, i \in 1..Len(checkpoints) :
        CastVoteBuilt(node_id, checkpoints[i])

DoProcessBuilt == \E i \in 1..Len(checkpoints) : ProcessBuilt(ProducerNode, checkpoints[i])

NextCheckpoint == DoBuildSuperVertex \/ DoProposeBuilt \/ DoCastVoteBuilt \/ DoProcessBuilt

SpecCheckpoint == InitCheckpoint /\ [][NextCheckpoint]_vars

----------------------------------------------------------------------------
(* Properties of the DAG store *)

\* the digests a sequence holds

\* the position of a stored digest
PositionOf(x, seq) == CHOOSE i \in 1..Len(seq) : seq[i] = x

\* the parents a batch declares
ParentsOf(hash) == Range(Vertex(hash).parent_hashes)

\* a batch add_vertex has to admit in the current store
Admissible(hash) ==
    /\ hash \notin Range(vertices)
    /\ \A p \in ParentsOf(hash) \ {"genesis"} : p \in Range(vertices)

\* C11: every stored batch has each declared parent other than 'genesis' stored,
\* and stored at an earlier position of the store than the batch itself.
C11_ParentInvariant ==
    \A i \in 1..Len(vertices) :
        \A p \in ParentsOf(vertices[i]) \ {"genesis"} :
            \E j \in 1..(i - 1) : vertices[j] = p

\* a batch with two stored parents was admitted after rejected calls
C11_Witness ==
    /\ "vx3" \in Range(vertices)
    /\ PositionOf("vx1", vertices) < PositionOf("vx3", vertices)
    /\ PositionOf("vx2", vertices) < PositionOf("vx3", vertices)

\* C12: after any add_vertex calls, accepted or rejected, the tips are exactly the
\* stored digests that no stored batch declares as a parent.
C12_TipInvariant ==
    tips = { h \in Range(vertices) :
                \A g \in Range(vertices) : h \notin ParentsOf(g) }

\* two children of one batch are the tips, the last call was rejected
C12_Witness ==
    /\ tips = { "vx2", "vx_fork" }
    /\ "vx1" \in Range(vertices)
    /\ returned = Returned("add_vertex", FALSE)

\* C13: add_vertex returns True exactly when the digest is not stored and every
\* parent other than 'genesis' is stored; it then appends the batch to the store,
\* takes its parents out of the tips and puts its digest in.
C13_AdmissionCondition ==
    [][\A hash \in VertexHashes :
          AddVertex(Vertex(hash)) =>
             /\ returned'.op = "add_vertex"
             /\ (returned'.value = "True") <=> Admissible(hash)
             /\ Admissible(hash) =>
                   /\ vertices' = Append(vertices, hash)
                   /\ tips' = (tips \ ParentsOf(hash)) \cup {hash}]_vars

\* the batch whose only parent is 'genesis' was admitted to the empty store
C13_Witness ==
    /\ vertices = << "vx1" >>
    /\ tips = { "vx1" }
    /\ returned = Returned("add_vertex", TRUE)

\* C14: an add_vertex call for a stored digest or with a parent other than
\* 'genesis' that is not stored returns False and leaves the stored batches, the
\* stored checkpoints and the tips as they were.
C14_RejectedAddVertex ==
    [][\A hash \in VertexHashes :
          (AddVertex(Vertex(hash)) /\ ~Admissible(hash)) =>
             /\ returned'.value = "False"
             /\ UNCHANGED <<vertices, super_vertices, tips>>
             /\ hash \notin Range(vertices) => hash \notin Range(vertices')]_vars

\* a call was rejected in a store that holds batches and a checkpoint, and no
\* batch with a missing parent is stored
C14_Witness ==
    /\ returned = Returned("add_vertex", FALSE)
    /\ Len(vertices) >= 2
    /\ super_vertices # << >>
    /\ Range(vertices) \cap { "vx_orphan", "vx_mixed", "vx_self" } = {}

\* C15: no stored batch has an empty parent list.
C15_NoEmptyParents ==
    \A i \in 1..Len(vertices) : Vertex(vertices[i]).parent_hashes # << >>

\* C16: add_super_vertex returns False and changes nothing for a stored digest;
\* for any other checkpoint it returns True and appends it, whatever its cohort.
C16_AddSuperVertex ==
    [][\A hash \in SuperVertexHashes :
          AddSuperVertex(SuperVertex(hash)) =>
             /\ returned'.op = "add_super_vertex"
             /\ UNCHANGED <<vertices, tips>>
             /\ IF hash \in Range(super_vertices)
                THEN returned'.value = "False" /\ UNCHANGED super_vertices
                ELSE /\ returned'.value = "True"
                     /\ super_vertices' = Append(super_vertices, hash)]_vars

\* checkpoints were stored whose cohorts overlap and name batches not stored, and
\* a repeated one was rejected
C16_Witness ==
    /\ Range(super_vertices) = { "sv1", "sv2", "sv3" }
    /\ vertices = << >>
    /\ returned = Returned("add_super_vertex", FALSE)

\* the batch digests in the cohort of some stored checkpoint
Covered == { h \in VertexHashes :
               \E i \in 1..Len(super_vertices) :
                  h \in Range(SuperVertex(super_vertices[i]).cohort_hashes) }

\* C17: get_unconfirmed_vertices returns, once each, exactly the stored batches in
\* the cohort of no stored checkpoint and changes nothing; a batch covered by a
\* stored checkpoint stays covered.
C17_UnconfirmedVertices ==
    /\ [][GetUnconfirmed =>
             /\ Range(returned'.list) = Range(vertices) \ Covered
             /\ Len(returned'.list) = Cardinality(Range(returned'.list))
             /\ UNCHANGED <<vertices, super_vertices, tips, balances, pools,
                            pending_votes, finalized_super_vertices>>]_vars
    /\ [][Covered \subseteq Covered']_vars

\* with two checkpoints stored, the only batch outside both cohorts was returned
C17_Witness ==
    /\ returned = ReturnedList("get_unconfirmed_vertices", << "vx_fork" >>)
    /\ Len(super_vertices) = 2
    /\ Len(vertices) = 3

\* the stored batches a batch declares as parents
StoredParents(hash) == ParentsOf(hash) \cap Range(vertices)

\* the stored batches reached from a batch over at most k parent links
RECURSIVE AncestorsWithin(_, _)
AncestorsWithin(hash, k) ==
    IF k = 0 THEN {}
    ELSE StoredParents(hash)
            \cup UNION { AncestorsWithin(p, k - 1) : p \in StoredParents(hash) }

\* a path that repeats no batch has fewer links than there are stored batches
Ancestors(hash) == AncestorsWithin(hash, Len(vertices))

\* C40: in every state of the store no stored batch is its own ancestor over the
\* parent links between stored batches, and every stored ancestor of a batch was
\* admitted before it: the admission order is a topological order.
C40_Acyclic ==
    /\ \A h \in Range(vertices) : h \notin Ancestors(h)
    /\ \A i \in 1..Len(vertices), j \in 1..Len(vertices) :
          vertices[j] \in Ancestors(vertices[i]) => j < i

\* a batch with two stored parents, one the parent of the other, is stored next
\* to a second child, and the last call, for a batch not admissible, was rejected
C40_Witness ==
    /\ Ancestors("vx3") = { "vx1", "vx2" }
    /\ Ancestors("vx2") = { "vx1" }
    /\ "vx_fork" \in Range(vertices)
    /\ "vx_self" \notin Range(vertices)
    /\ returned = Returned("add_vertex", FALSE)

----------------------------------------------------------------------------
(* Properties of the ledger *)

\* C18: an apply_transaction call whose sender holds less than amount + fee
\* returns False and changes no balance and no pool.
C18_InsufficientFunds ==
    [][\A sender \in LedgerAccounts, recipient \in LedgerAccounts,
          amount \in Amounts, fee \in Fees :
          ( /\ balances[LedgerNode][sender] < amount + fee
            /\ ApplyTransactionCall(LedgerNode, sender, recipient, amount, fee) )
          => /\ returned'.value = "False"
             /\ UNCHANGED <<balances, pools>>]_vars

\* a transfer was refused on a ledger that holds funds and fees: the sender could
\* pay an amount of 30 but not the fee on top of it
C18_Witness ==
    /\ returned = Returned("apply_transaction", FALSE)
    /\ balances[LedgerNode]["user_0"] = 30
    /\ balances[LedgerNode]["user_1"] = 30
    /\ pools[LedgerNode].validator_share_pool > 0

\* C19 as stated: for every sender, recipient, amount and fee, a sender holding
\* exactly amount + fee ends with 0 and the recipient's balance grows by amount.
C19_TransferExactness ==
    [][\A sender \in LedgerAccounts, recipient \in LedgerAccounts,
          amount \in Amounts, fee \in Fees :
          ( /\ balances[LedgerNode][sender] = amount + fee
            /\ ApplyTransactionCall(LedgerNode, sender, recipient, amount, fee) )
          => /\ balances'[LedgerNode][sender] = 0
             /\ balances'[LedgerNode][recipient]
                    = balances[LedgerNode][recipient] + amount]_vars

\* C19 amended: a sender holding exactly amount + fee and paying another account
\* ends with 0 and the recipient's balance grows by amount; paying itself, the
\* account ends with amount.
C19_TransferExactnessDistinct ==
    [][\A sender \in LedgerAccounts, recipient \in LedgerAccounts,
          amount \in Amounts, fee \in Fees :
          ( /\ balances[LedgerNode][sender] = amount + fee
            /\ ApplyTransactionCall(LedgerNode, sender, recipient, amount, fee) )
          => /\ returned'.value = "True"
             /\ IF sender # recipient
                THEN /\ balances'[LedgerNode][sender] = 0
                     /\ balances'[LedgerNode][recipient]
                            = balances[LedgerNode][recipient] + amount
                ELSE balances'[LedgerNode][sender] = amount]_vars

\* a sender was emptied by a transfer that the other account received
C19_Witness ==
    /\ returned = Returned("apply_transaction", TRUE)
    /\ balances[LedgerNode]["user_0"] = 0
    /\ balances[LedgerNode]["user_1"] = 30
    /\ pools[LedgerNode] = EmptyPools

\* C20: an apply_transaction call that returns True takes amount + fee from the
\* sender, gives amount to the recipient and leaves every other account, every
\* pool and every other ledger as they were.
C20_TransferFrame ==
    [][\A sender \in LedgerAccounts, recipient \in LedgerAccounts,
          amount \in Amounts, fee \in Fees :
          ( /\ returned'.value = "True"
            /\ ApplyTransactionCall(LedgerNode, sender, recipient, amount, fee) )
          => /\ \A a \in AccountIds :
                   balances'[LedgerNode][a] =
                       balances[LedgerNode][a]
                         - (IF a = sender THEN amount + fee ELSE 0)
                         + (IF a = recipient THEN amount ELSE 0)
             /\ \A n \in NodeIds \ {LedgerNode} : balances'[n] = balances[n]
             /\ UNCHANGED pools]_vars

\* a transfer with a fee was applied on a ledger whose pools hold earlier fees:
\* 40 credited, 30 + 5 paid, 4/1/0/0 in the pools
C20_Witness ==
    /\ returned = Returned("apply_transaction", TRUE)
    /\ balances[LedgerNode]["user_0"] = 5
    /\ balances[LedgerNode]["user_1"] = 30
    /\ pools[LedgerNode].validator_share_pool = 4
    /\ pools[LedgerNode].ubi_share_pool = 1

\* no account balance and no pool of the ledger is below zero
NonNegativeLedger ==
    /\ \A a \in AccountIds : balances[LedgerNode][a] >= 0
    /\ pools[LedgerNode].validator_share_pool >= 0
    /\ pools[LedgerNode].ubi_share_pool >= 0
    /\ pools[LedgerNode].carbon_share_pool >= 0
    /\ pools[LedgerNode].gratitude_share_pool >= 0

\* the amounts and fees of the calls that are not negative
NonNegativeAmounts == { amount \in Amounts : amount >= 0 }

NonNegativeFees == { fee \in Fees : fee >= 0 }

\* the step is a credit, apply_transaction or distribute_fee call whose amount and
\* fee are not negative
NonNegativeCall ==
    \/ \E address \in LedgerAccounts, amount \in NonNegativeAmounts :
          CreditAccount(LedgerNode, address, amount)
    \/ \E sender \in LedgerAccounts, recipient \in LedgerAccounts,
          amount \in NonNegativeAmounts, fee \in NonNegativeFees :
          ApplyTransactionCall(LedgerNode, sender, recipient, amount, fee)
    \/ \E total_fee \in NonNegativeFees : DistributeFeeCall(LedgerNode, total_fee)

\* C37: the empty ledger has no balance and no pool below zero, and a credit,
\* apply_transaction or distribute_fee call whose amount and fee are not negative
\* never takes a ledger without negative entries to one with a negative entry; so
\* after any sequence of such calls every balance and every pool is >= 0.
C37_NoNegativeBalance ==
    /\ NonNegativeLedger
    /\ [][(NonNegativeLedger /\ NonNegativeCall) => NonNegativeLedger']_vars

\* after a fee of 5 was pooled and 10 credited, a transfer of all the sender holds
\* was applied and left the sender at 0
C37_Witness ==
    /\ returned = Returned("apply_transaction", TRUE)
    /\ balances[LedgerNode]["user_0"] = 0
    /\ balances[LedgerNode]["user_1"] = 10
    /\ pools[LedgerNode].validator_share_pool = 4
    /\ pools[LedgerNode].ubi_share_pool = 1

----------------------------------------------------------------------------
(* Properties of checkpoint application *)

\* the transactions a node walks through when it applies a cohort: those of the
\* batches that are stored, batch after batch in cohort order
RECURSIVE CohortTransactions(_, _)
CohortTransactions(stored, cohort) ==
    IF cohort = << >> THEN << >>
    ELSE (IF HasVertex(stored, Head(cohort))
          THEN Vertex(Head(cohort)).transactions ELSE << >>)
         \o CohortTransactions(stored, Tail(cohort))

\* the ledger after the first i transactions of the walk
RECURSIVE LedgerAfter(_, _, _)
LedgerAfter(ledger, txs, i) ==
    IF i = 0 THEN ledger
    ELSE ProcessTransaction(LedgerAfter(ledger, txs, i - 1), txs[i])

LedgerOf(node_id) == [ balances |-> balances[node_id], pools |-> pools[node_id] ]

LedgerOfNext(node_id) == [ balances |-> balances'[node_id], pools |-> pools'[node_id] ]

\* node_id has just applied the checkpoint with digest h
AppliedStep(node_id, h) == applied'[node_id] = Append(applied[node_id], h)

KeyKnown(tx) == tx.sender \in DOMAIN KnownPeers

SignatureValid(tx) ==
    /\ KeyKnown(tx)
    /\ Verify(KnownPeers[tx.sender],
              Message(tx.sender, tx.recipient, tx.amount, tx.fee, tx.id), tx.signature)

Funded(bal, tx) == bal[tx.sender] >= tx.amount + tx.fee

C25_SkipWithoutRollback ==
    [][ \A node_id \in ApplyingNodes, h \in ApplyDigests :
          AppliedStep(node_id, h)
          => LET txs == CohortTransactions(vertices, SuperVertex(h).cohort_hashes)
             IN  \A i \in 1..Len(txs) :
                    ~SignatureValid(txs[i])
                    => LET before == LedgerAfter(LedgerOf(node_id), txs, i - 1)
                           rest == SubSeq(txs, i + 1, Len(txs))
                       IN  /\ LedgerAfter(LedgerOf(node_id), txs, i) = before
                           /\ LedgerOfNext(node_id)
                                = LedgerAfter(before, rest, Len(rest))
      ]_vars

\* vx_mix applied: the first transfer, then two skipped, one without funds, then
\* the last transfer
C25_Witness ==
    /\ applied["validator_0"] = << "sv5" >>
    /\ HasVertex(vertices, "vx_mix")
    /\ balances["validator_0"]["user_0"] = 10080
    /\ balances["validator_0"]["user_1"] = 9912
    /\ pools["validator_0"].validator_share_pool = 7
    /\ pools["validator_0"].ubi_share_pool = 1

\* the cohort without the digests that are not stored
StoredOnly(stored, cohort) ==
    LET IsStored(vertex_hash) == HasVertex(stored, vertex_hash)
    IN  SelectSeq(cohort, IsStored)

\* the ledger after the batches of the list were applied one after the other
RECURSIVE LedgerAfterBatches(_, _)
LedgerAfterBatches(ledger, hashes) ==
    IF hashes = << >> THEN ledger
    ELSE LET txs == Vertex(hashes[Len(hashes)]).transactions
         IN  LedgerAfter(LedgerAfterBatches(ledger, SubSeq(hashes, 1, Len(hashes) - 1)),
                         txs, Len(txs))

\* C26: a cohort digest that is not in the node's DAG is skipped alone: the
\* application ends, and the ledger is the one that applying the stored batches
\* of the cohort, in cohort order, gives.
C26_AbsentBatchSkipped ==
    [][ \A node_id \in ApplyingNodes, h \in ApplyDigests :
          AppliedStep(node_id, h)
          => /\ LedgerOfNext(node_id)
                  = LedgerAfterBatches(LedgerOf(node_id),
                                       StoredOnly(vertices, SuperVertex(h).cohort_hashes))
             /\ returned'.op = "process_finalized_super_vertex"
      ]_vars

\* cohort [vx7, vx1, vx8] applied while vx1 was not stored: validator_3 received
\* 500 in vx7 and spent 204 of it in vx8
C26_Witness ==
    /\ applied["validator_0"] = << "sv4" >>
    /\ vertices = << "vx7", "vx8" >>
    /\ balances["validator_0"]["validator_3"] = 296
    /\ balances["validator_0"]["user_0"] = 9490
    /\ balances["validator_0"]["user_1"] = 10200

----------------------------------------------------------------------------
(* Properties of batch creation *)

Ids(transactions) == [ i \in 1..Len(transactions) |-> transactions[i].id ]

\* C24: the transactions of a batch are applied in their stored order, which is
\* the order in which they were queued in the producer's mempool.  The vertex
\* create_vertex returns lists the mempool in queue order, an admitted vertex is
\* stored as built, and applying it walks that list front to back on the
\* running ledger: with validator_3 at 0, [tx7, tx8] funds validator_3 and lets
\* it spend, while [tx8, tx7] fails tx8 and leaves it the 500 of tx7.
C24_StoredOrderApplied ==
    [][ /\ returned'.op = "create_vertex" /\ mempool[ProducerNode] # << >>
           => /\ Ids(returned'.list[1].transactions) = mempool[ProducerNode]
              /\ returned'.value = "True"
                 => /\ InSeq(returned'.list[1].hash, vertices')
                    /\ built' = Append(built, returned'.list[1])
        /\ applied'[ProducerNode] # applied[ProducerNode]
           => LET txs == GetVertex(vertices[Len(vertices)]).transactions
                  before == LedgerOf(ProducerNode)
                  after == LedgerOfNext(ProducerNode)
              IN  /\ after = LedgerAfter(before, txs, Len(txs))
                  /\ Ids(txs) = << "tx7", "tx8" >>
                       /\ before.balances["validator_3"] = 0
                       /\ before.balances["user_0"] >= 510
                     => /\ after.balances["validator_3"] = 296
                        /\ after.balances["user_1"] = before.balances["user_1"] + 200
                  /\ Ids(txs) = << "tx8", "tx7" >>
                       /\ before.balances["validator_3"] = 0
                       /\ before.balances["user_0"] >= 510
                     => /\ after.balances["validator_3"] = 500
                        /\ after.balances["user_1"] = before.balances["user_1"]
      ]_vars

\* tx7 then tx8 were queued, made into a batch and applied
C24_Witness ==
    /\ Len(built) = 1
    /\ Ids(built[1].transactions) = << "tx7", "tx8" >>
    /\ Len(applied[ProducerNode]) = 1
    /\ balances[ProducerNode]["validator_3"] = 296
    /\ balances[ProducerNode]["user_0"] = 9490

\* what the digest of a batch is said to be computed from
Content(vertex) ==
    << Ids(vertex.transactions), vertex.parent_hashes, vertex.creator_id,
       vertex.timestamp >>

\* C30: batch digests are content addresses.  A batch that differs from every
\* stored batch in its transactions, parents, creator or timestamp has a digest
\* different from theirs, and create_vertex gets it admitted.
C30_ContentAddressed ==
    [][ returned'.op = "create_vertex" /\ mempool[ProducerNode] # << >>
        => LET vertex == returned'.list[1]
           IN  (\A stored \in Range(built) : Content(stored) # Content(vertex))
               => /\ \A stored \in Range(built) : stored.hash # vertex.hash
                  /\ returned'.value = "True"
      ]_vars

\* the ids of the transactions in the batches DAG.vertices holds
StoredIds(objects, stored) ==
    UNION { Range(Ids(vertex.transactions)) :
              vertex \in { v \in Range(objects) : InSeq(v.hash, stored) } }

\* C39: create_vertex loses no transaction.  When a call that found transactions
\* in the mempool returns, each transaction it took out of the mempool is in a
\* batch stored in the node's DAG, also when add_vertex refused the new batch.
C39_NoTransactionLost ==
    [][ returned'.op = "create_vertex" /\ mempool[ProducerNode] # << >>
        => \A id \in Range(mempool[ProducerNode]) :
              \/ id \in Range(mempool'[ProducerNode])
              \/ id \in StoredIds(built', vertices')
      ]_vars

\* the sum of the account balances and the four pools of the ledger
RECURSIVE SumOver(_, _)
SumOver(bal, accounts) ==
    IF accounts = {} THEN Zero
    ELSE LET a == CHOOSE x \in accounts : TRUE
         IN  ZAdd(bal[a], SumOver(bal, accounts \ {a}))

Supply(bal, p) ==
    ZAdd(SumOver(bal, AccountIds),
         ZAdd(ZAdd(p.validator_share_pool, p.ubi_share_pool),
              ZAdd(p.carbon_share_pool, p.gratitude_share_pool)))

\* C36: applying a finalized checkpoint whose transactions have amount >= 0 and
\* fee >= 0 leaves the sum of all account balances and the four pools as it was.
C36_SupplyConserved ==
    [][ applied'[LedgerNode] # applied[LedgerNode]
        => Supply(balances'[LedgerNode], pools'[LedgerNode])
              = Supply(balances[LedgerNode], pools[LedgerNode]) ]_vars

----------------------------------------------------------------------------
(* Properties of checkpoints *)

\* what the digest of a checkpoint is said to be computed over
CheckpointFields(super_vertex) ==
    << super_vertex.parent_super_vertex_hash, super_vertex.creator_id,
       super_vertex.timestamp, super_vertex.transaction_merkle_root,
       super_vertex.structure_merkle_root >>

\* C31: checkpoints that differ in parent digest, creator, timestamp, transaction
\* root or structure root have different digests, so that the tally and the
\* finalized set, which are keyed by digest, never hold one checkpoint's votes or
\* finalization under the digest of a different checkpoint.
C31_CheckpointDigestDistinct ==
    \A i \in 1..Len(checkpoints), j \in 1..Len(checkpoints) :
        CheckpointFields(checkpoints[i]) # CheckpointFields(checkpoints[j])
            => checkpoints[i].hash # checkpoints[j].hash

\* the root the statement gives for lists of one, two and three items
StatedRoot(items) ==
    CASE Len(items) = 1 -> Sha256(items[1])
      [] Len(items) = 2 -> Sha256(Sha256(items[1]) \o Sha256(items[2]))
      [] Len(items) = 3 ->
            Sha256(Sha256(Sha256(items[1]) \o Sha256(items[2]))
                     \o Sha256(Sha256(items[3]) \o Sha256(items[3])))

\* C32: the two roots of a checkpoint are equal and determined by the ordered
\* cohort list: checkpoints with the same list have the same root, whatever
\* their other fields.  The root of [a] is H(a), that of [a, b] is H(H(a)+H(b)),
\* that of [a, b, c] is H(H(H(a)+H(b)) + H(H(c)+H(c))).
C32_MerkleRoot ==
    \A i \in 1..Len(checkpoints) :
        LET c == checkpoints[i]
        IN  /\ c.transaction_merkle_root = c.structure_merkle_root
            /\ Len(c.cohort_hashes) \in 1..3
                  => c.transaction_merkle_root = StatedRoot(c.cohort_hashes)
            /\ \A j \in 1..Len(checkpoints) :
                  checkpoints[j].cohort_hashes = c.cohort_hashes
                     => checkpoints[j].transaction_merkle_root = c.transaction_merkle_root

\* a checkpoint over three digests and one over a single digest were constructed
C32_Witness ==
    /\ Len(checkpoints) = 2
    /\ Len(checkpoints[1].cohort_hashes) = 3
    /\ Len(checkpoints[2].cohort_hashes) = 1
    /\ checkpoints[1].transaction_merkle_root # checkpoints[2].transaction_merkle_root

\* C35: no batch digest is in the cohorts of two different finalized checkpoints.
C35_BatchFinalizedOnce ==
    \A i \in 1..Len(checkpoints), j \in 1..Len(checkpoints) :
        ( /\ checkpoints[i] # checkpoints[j]
          /\ checkpoints[i].hash \in finalized_super_vertices
          /\ checkpoints[j].hash \in finalized_super_vertices )
        => Range(checkpoints[i].cohort_hashes) \cap Range(checkpoints[j].cohort_hashes) = {}

----------------------------------------------------------------------------
(* Properties of the fee model *)

ShareSum(b) ==
    ZAdd(ZAdd(b.validator_share, b.ubi_share), ZAdd(b.carbon_share, b.gratitude_share))

PoolSum(p) ==
    ZAdd(ZAdd(p.validator_share_pool, p.ubi_share_pool),
         ZAdd(p.carbon_share_pool, p.gratitude_share_pool))

\* floor(percent * n / 100) for a natural number n
FloorPercent(n, percent) == WDiv(WMulSmall(n, percent), 100)

\* C21: fee conservation.  Every get_fee_breakdown call with an integer
\* total_fee >= 1 returns four shares, each >= 0, that sum to total_fee, and
\* distribute_fee raises the sum of the four pools by total_fee; with
\* total_fee < 1 the four shares are zero and the pools stay as they were.
C21_FeeConservation ==
    [][ /\ returned'.op = "get_fee_breakdown"
           => LET total_fee == returned'.args[1]
              IN  /\ returned'.value = "None"
                  /\ \A b \in Range(returned'.list) :
                        /\ ~b.validator_share.negative
                        /\ ~b.ubi_share.negative
                        /\ ~b.carbon_share.negative
                        /\ ~b.gratitude_share.negative
                        /\ ShareSum(b) = IF ZLessThanOne(total_fee) THEN Zero
                                         ELSE total_fee
                        /\ ZLessThanOne(total_fee)
                           => /\ b.validator_share = Zero
                              /\ b.ubi_share = Zero
                              /\ b.carbon_share = Zero
                              /\ b.gratitude_share = Zero
        /\ returned'.op = "distribute_fee" /\ returned.op = "get_fee_breakdown"
           => LET total_fee == returned.args[1]
              IN  /\ ~ZLessThanOne(total_fee)
                     => PoolSum(pools'[LedgerNode])
                          = ZAdd(PoolSum(pools[LedgerNode]), total_fee)
                  /\ ZLessThanOne(total_fee) => pools' = pools
      ]_vars

\* C22: fee split values.  For every integer total_fee >= 1 the shares a
\* get_fee_breakdown call returns are: UBI floor(20 * total_fee / 100), carbon
\* and gratitude floor(10 * total_fee / 100) each, and validator
\* floor(60 * total_fee / 100) plus all of total_fee the four floors leave over.
C22_FeeSplitValues ==
    [][ returned'.op = "get_fee_breakdown" /\ ~ZLessThanOne(returned'.args[1])
        => \A b \in Range(returned'.list) :
              LET n == returned'.args[1].magnitude
                  floors == WAdd(WAdd(FloorPercent(n, 60), FloorPercent(n, 20)),
                                 WAdd(FloorPercent(n, 10), FloorPercent(n, 10)))
              IN  /\ b.ubi_share = Z(FALSE, FloorPercent(n, 20))
                  /\ b.carbon_share = Z(FALSE, FloorPercent(n, 10))
                  /\ b.gratitude_share = Z(FALSE, FloorPercent(n, 10))
                  /\ b.validator_share
                       = Z(FALSE, WAdd(FloorPercent(n, 60), WSub(n, floors)))
      ]_vars

----------------------------------------------------------------------------
(* Properties of the finality engine *)

Members == { current_committee[i] : i \in 1..Len(current_committee) }

\* floor(2N/3) + 1
Quorum(N) == ((2 * N) \div 3) + 1

\* distinct voters of digest h once node n's vote is recorded
DistinctAfter(h, n) == Cardinality(Voters(GetVotes(pending_votes, h)) \cup {n})

\* the step is a propose or cast_vote call of node n for digest h
VoteStep(n, h) ==
    \E k \in PrivateKeys(n) : CastVote(n, h, k) \/ ProposeSuperVertex(n, h, k)

\* the step is a propose or cast_vote call that was accepted: it logged the
\* outcome of the quorum check
AcceptedVoteStep == log' \in {"finalized", "not_enough_votes"}

\* distinct voters of the voted digest once the accepted vote is recorded
DistinctAfterVote == Cardinality(prior'.voters \cup {prior'.node_id})

C2_FinalizedPermanent ==
    [][ finalized_super_vertices \subseteq finalized_super_vertices' ]_vars

\* both digests finalized, a rotation made, and a later vote met the first one finalized
C2_Witness ==
    /\ finalized_super_vertices = Digests
    /\ Len(committee_history) > 1
    /\ log = "already_finalized"

\* every thread is outside cast_vote
Quiescent == \A t \in NodeIds : thread[t].pc = "idle"

\* members whose cast_vote call for h was made
Callers(h) == { t \in Members : calls_made[t] > 0 }

\* C3: when cast_vote calls of different members for one digest interleave
\* statement by statement, no call ends in an exception, at most one call executes
\* the finalize step for the digest, and once all calls have returned a digest voted
\* for by a quorum of members is finalized and a finalized digest has no tally.
C3_AtomicFinalization ==
    /\ raised = {}
    /\ \A h \in ConcurrentDigests :
          Cardinality({ c \in finalize_calls : c[2] = h }) <= 1
    /\ Quiescent =>
          \A h \in ConcurrentDigests :
             /\ h \in finalized_super_vertices => h \notin DOMAIN pending_votes
             /\ Cardinality(Callers(h)) >= Quorum(Len(current_committee))
                    => h \in finalized_super_vertices

\* C4: a process_finalized_super_vertex call for a finalized checkpoint that was the
\* last one applied on the same node leaves every balance and every fee pool of
\* every node as the first call left them.
C4_ApplicationIdempotent ==
    [][\A node_id \in ApplyingNodes, h \in Digests :
          ( /\ h \in finalized_super_vertices
            /\ applied[node_id] # << >>
            /\ applied[node_id][Len(applied[node_id])] = h
            /\ ProcessFinalizedSuperVertex(node_id, SuperVertex(h)) )
          => UNCHANGED <<balances, pools>>]_vars

\* C5: a vote by a member already in the tally leaves the number of entries as it
\* was (if the digest is finalized by that call, the count it had already reached
\* the quorum), and a tally holding that voter alone is never finalized by it when
\* floor(2N/3)+1 > 1.
C5_RevoteIdempotent ==
    [][ \A h \in DOMAIN pending_votes :
          \A n \in Members \cap Voters(pending_votes[h]) :
            VoteStep(n, h) =>
              /\ h \in DOMAIN pending_votes' =>
                    Cardinality(pending_votes'[h]) = Cardinality(pending_votes[h])
              /\ h \notin DOMAIN pending_votes' =>
                    Cardinality(pending_votes[h]) >= Quorum(Len(current_committee))
              /\ (Voters(pending_votes[h]) = {n} /\ Quorum(Len(current_committee)) > 1)
                    => h \notin finalized_super_vertices'
      ]_vars

\* validator_0 voted again with its other key: its entry was replaced, the voters
\* are those the call found
C5_Witness ==
    /\ log = "not_enough_votes"
    /\ prior.digest \in DOMAIN pending_votes
    /\ "validator_0" \in prior.voters
    /\ Voters(pending_votes[prior.digest]) = prior.voters
    /\ <<"validator_0", Sign("sk_validator_0_new", prior.digest)>>
            \in pending_votes[prior.digest]
    /\ Cardinality(pending_votes[prior.digest]) = 2

\* C6: a propose or cast_vote call for a digest that is in the finalized set leaves
\* the finalized set, every tally and every balance and fee pool of every node as
\* they were.
C6_FinalityIdempotence ==
    [][\A node_id \in NodeIds, h \in Digests :
          (h \in finalized_super_vertices /\ VoteStep(node_id, h))
          => UNCHANGED <<finalized_super_vertices, pending_votes, balances, pools>>]_vars

\* a vote was turned away as already finalized after the checkpoint had been applied
C6_Witness ==
    /\ log = "already_finalized"
    /\ "sv1" \in finalized_super_vertices
    /\ applied["validator_0"] = << "sv1" >>
    /\ balances["validator_0"]["user_0"] = 9940
    /\ pools["validator_0"].validator_share_pool = 10

\* C7: a propose or cast_vote call of a node outside the current committee leaves
\* every tally, the finalized set and the committee as they were.
C7_NonMemberRejected ==
    [][ \A n \in NodeIds \ Members, h \in Digests :
          VoteStep(n, h) =>
            UNCHANGED <<pending_votes, finalized_super_vertices,
                        current_committee, committee_history>>
      ]_vars

\* a node that voted while a member was turned away after the rotation
C7_Witness ==
    /\ log \in {"cannot_vote", "cannot_propose"}
    /\ Len(committee_history) = 2
    /\ \E h \in DOMAIN pending_votes : Voters(pending_votes[h]) \ Members # {}
    /\ finalized_super_vertices # {}

\* C8: a rotation leaves every tally as it was, and an accepted vote finalizes its
\* digest exactly when the tally, votes of former members included, then has at
\* least floor(2N'/3)+1 entries, N' the length of the committee current at that call
\* (the last one of the history), whatever the committee was when they were cast.
C8_QuorumAtCheckTime ==
    [][ /\ committee_history' # committee_history => pending_votes' = pending_votes
        /\ AcceptedVoteStep =>
              LET Nnow == Len(committee_history'[Len(committee_history')])
              IN  (prior'.digest \in finalized_super_vertices') <=>
                     (Cardinality(GetVotes(pending_votes, prior'.digest))
                        + (IF prior'.node_id \in prior'.voters THEN 0 ELSE 1)
                            >= Quorum(Nnow))
      ]_vars

\* after a rotation from 4 members to 1, the member's vote finalized a digest whose
\* tally held two votes of former members: 3 entries, counted against N' = 1
C8_Witness ==
    /\ Len(committee_history) = 2
    /\ Len(committee_history[1]) = 4
    /\ Len(current_committee) = 1
    /\ log = "finalized"
    /\ prior.digest \in finalized_super_vertices
    /\ Cardinality(prior.voters \ Members) = 2

\* C9: no digest is both finalized and a key of pending_votes; a tally appears only
\* by an accepted vote for a digest not finalized, disappears only as its digest is
\* finalized, and a finalized digest never has a tally again.
C9_TallyOnlyWhilePending ==
    /\ [](finalized_super_vertices \cap DOMAIN pending_votes = {})
    /\ [][ \A h \in Digests :
             /\ (h \in DOMAIN pending_votes /\ h \notin DOMAIN pending_votes')
                    => (h \notin finalized_super_vertices
                        /\ h \in finalized_super_vertices')
             /\ (h \notin DOMAIN pending_votes /\ h \in DOMAIN pending_votes')
                    => (h \notin finalized_super_vertices
                        /\ \E n \in Members : VoteStep(n, h))
             /\ (h \in finalized_super_vertices /\ h \in Digests)
                    => (h \in finalized_super_vertices'
                        /\ h \notin DOMAIN pending_votes')
         ]_vars

\* one digest finalized by a vote that found a tally, the other still pending
C9_Witness ==
    /\ log = "finalized"
    /\ prior.voters # {}
    /\ prior.digest \in finalized_super_vertices
    /\ \E h \in Digests : h \in DOMAIN pending_votes /\ h \notin finalized_super_vertices

\* C10: a process_finalized_super_vertex call changes a balance or a fee pool only
\* when the digest of its checkpoint is in the finalized set at the time of the call.
C10_OnlyFinalizedApplied ==
    [][\A node_id \in ApplyingNodes, h \in Digests :
          ( /\ h \notin finalized_super_vertices
            /\ ProcessFinalizedSuperVertex(node_id, SuperVertex(h)) )
          => UNCHANGED <<balances, pools>>]_vars

\* the digests whose tally holds at least floor(2N/3)+1 voters, N the length of
\* the current committee
OverThreshold ==
    { h \in DOMAIN pending_votes :
        Cardinality(Voters(pending_votes[h])) >= Quorum(Len(current_committee)) }

\* C34 as stated: in every state reached by propose, cast_vote and
\* rotate_committee calls, no pending digest has a tally of floor(2N/3)+1 or more
\* distinct voters, N the length of the current committee.
C34_NoOverThresholdPending == OverThreshold = {}

\* C34 amended: as long as no rotate_committee call was made, no pending digest
\* has a tally of floor(2N/3)+1 or more distinct voters; and in every state that a
\* quorum check has just left, rotations before it or not, the digest checked is
\* not pending with that many voters.
C34_NoOverThresholdAtCheck ==
    /\ Len(committee_history) = 1 => OverThreshold = {}
    /\ log \in {"finalized", "not_enough_votes"} => prior.digest \notin OverThreshold

\* in a committee of 4 that was never rotated a vote has finalized one digest on
\* its third voter while the other waits one vote short
C34_Witness ==
    /\ Len(committee_history) = 1
    /\ Len(current_committee) = 4
    /\ log = "finalized"
    /\ prior.digest \in finalized_super_vertices
    /\ \E h \in DOMAIN pending_votes : Cardinality(Voters(pending_votes[h])) = 2

\* C33: every node votes through its own engine instance on the one tally and the
\* one finalized set of the process: a member's vote for a digest not finalized
\* is counted together with the votes cast through the other instances (it
\* finalizes the digest when they make floor(2N/3)+1 distinct voters, and else
\* joins them in the tally), and a digest finalized through one instance is
\* finalized for the vote of every other instance, which is ignored.
C33_SharedTallies ==
    [][\A node_id \in NodeIds, h \in VotedDigests :
          CastVote(node_id, h, KeyPair(node_id).private_key) =>
             LET others == Voters(GetVotes(pending_votes, h)) \ {node_id}
             IN  IF h \in finalized_super_vertices
                 THEN /\ log' = "already_finalized"
                      /\ UNCHANGED <<pending_votes, finalized_super_vertices>>
                 ELSE IF Cardinality(others) + 1 >= Quorum(Len(validator_ids))
                 THEN /\ h \in finalized_super_vertices'
                      /\ h \notin DOMAIN pending_votes'
                 ELSE /\ h \notin finalized_super_vertices'
                      /\ Voters(pending_votes'[h]) = others \cup {node_id}]_vars

\* the vote cast through one node's engine finalized the digest on the votes that
\* two other nodes had cast through theirs
C33_Witness ==
    /\ "sv1" \in finalized_super_vertices
    /\ log = "finalized"
    /\ prior.digest = "sv1"
    /\ Cardinality(prior.voters \ {prior.node_id}) = 2
    /\ prior.node_id \notin prior.voters

\* C38: with a committee that is not rotated and every member eventually casting
\* its vote, every digest is eventually finalized; and a digest is finalized by
\* the accepted vote of a member that had not voted for it, the one that makes
\* the distinct voters exactly floor(2N/3)+1.
C38_LivenessOfFinality ==
    /\ \A h \in Digests : <>(h \in finalized_super_vertices)
    /\ [][\A h \in finalized_super_vertices' \ finalized_super_vertices :
             /\ AcceptedVoteStep
             /\ prior'.digest = h
             /\ prior'.node_id \in Members
             /\ prior'.voters \subseteq Members
             /\ prior'.node_id \notin prior'.voters
             /\ Cardinality(prior'.voters) + 1 = Quorum(Len(current_committee))]_vars

\* both digests are finalized in a committee of 3, the second by the vote of the
\* third member on the votes of the two others
C38_Witness ==
    /\ Len(current_committee) = 3
    /\ finalized_super_vertices = Digests
    /\ log = "finalized"
    /\ Cardinality(prior.voters) = 2
    /\ prior.node_id \notin prior.voters

----------------------------------------------------------------------------
(* Properties of the reference run *)

\* C28: end-to-end scenario, balances and quorum.  Committee of 4, user_0 and
\* user_1 at 10000 on validator_0's ledger, batch vx1 = [user_0 sends 100 fee 10
\* to user_1, user_1 sends 50 fee 5 to user_0], checkpoint sv1 over vx1: an
\* accepted vote finalizes sv1 exactly when it is the third distinct member's
\* (the proposal counting as a vote), a vote after that changes nothing, and
\* validator_0's first application of sv1 ends with user_0 = 9940 and
\* user_1 = 10045.
C28_ScenarioBalances ==
    [][ /\ AcceptedVoteStep /\ prior'.digest = "sv1"
           => ("sv1" \in finalized_super_vertices') <=> (DistinctAfterVote = 3)
        /\ \A n \in NodeIds :
              "sv1" \in finalized_super_vertices /\ VoteStep(n, "sv1")
              => /\ log' = "already_finalized"
                 /\ UNCHANGED <<finalized_super_vertices, pending_votes, balances, pools>>
        /\ applied["validator_0"] = << >> /\ AppliedStep("validator_0", "sv1")
           => /\ balances'["validator_0"]["user_0"] = 9940
              /\ balances'["validator_0"]["user_1"] = 10045
      ]_vars

\* the run of run_simulation: sv1 finalized by three votes, the fourth turned
\* away, and validator_0 has applied it
C28_Witness ==
    /\ Len(current_committee) = 4
    /\ finalized_super_vertices = { "sv1" }
    /\ pending_votes = << >>
    /\ log = "already_finalized"
    /\ applied["validator_0"] = << "sv1" >>
    /\ balances["validator_0"]["user_0"] = 9940
    /\ balances["validator_0"]["user_1"] = 10045

====
